---- MODULE Spec2Model ----
(***************************************************************************)
(* Quota, usage ledger, rate limiting and generation routes of the         *)
(* YouTube Script AI backend (src/server.js).                              *)
(*                                                                         *)
(* The relational store is the variables users, usage_quotas, usage_logs   *)
(* and saved_scripts; the rate limiters keep their stores in hits.  Every  *)
(* request is a record of the bag req; each await of a handler is one      *)
(* step of that request, so requests interleave at exactly the suspension  *)
(* points of the code.                                                     *)
(***************************************************************************)
EXTENDS Integers, Sequences, FiniteSets, Bags, TLC

VARIABLES
    users,          \* table users: id -> access_level, for the ids that have a row
    usage_quotas,   \* table usage_quotas: access_level -> row, for the levels that have one
    usage_logs,     \* table usage_logs, in insertion order
    saved_scripts,  \* table saved_scripts: its id sequence and its rows by id
    month,          \* DATE_TRUNC('month', CURRENT_TIMESTAMP) of the store
    now,            \* Date.now() of the server process, in ms
    hits,           \* the three rate limiters' stores: scope -> ip -> window
    req             \* the bag of requests, in flight or answered: the handlers' locals

vars == <<users, usage_quotas, usage_logs, saved_scripts, month, now, hits, req>>

----------------------------------------------------------------------------
(* Bounds of the model *)

MaxUsers == 2          \* user ids 1..MaxUsers
MaxInFlight == 2       \* requests held at a time, in flight or answered
MaxLogs == 2           \* usage_logs rows the orchestrator runs may reach
MaxInitLogs == 2       \* rows of each kind in a ledger drawn by InitQuota
MaxLimit == 2          \* operator-tuned monthly limits 0..MaxLimit
MaxMonth == 2          \* calendar months 0..MaxMonth
MaxTicks == 2          \* times the clock of the limiter runs advances
MaxOver == 1           \* hits a client makes beyond a limiter's max within a window
MaxMixed == 0          \* hits in an open window of the other kind of route (auth, API)

UserIds == 1..MaxUsers

----------------------------------------------------------------------------
(* Closed enum of feature types, and one value outside it *)

Features ==
    {"script", "hooks", "titles", "outline", "description", "tags",
     "thumbnail", "ctas"}

RoutedFeatures == {"script", "hooks", "titles"}

----------------------------------------------------------------------------
(* Text: a string of the program is a sequence of pieces; a number is       *)
(* rendered digit by digit, as template literals and the pg driver do.      *)

DigitChar == <<"0", "1", "2", "3", "4", "5", "6", "7", "8", "9">>

RECURSIVE NumberToString(_)
NumberToString(n) ==
    IF n < 10 THEN <<DigitChar[n + 1]>>
    ELSE NumberToString(n \div 10) \o <<DigitChar[(n % 10) + 1]>>

DigitValue(c) == CHOOSE d \in 0..9 : DigitChar[d + 1] = c

RECURSIVE parseInt(_)
parseInt(s) ==
    IF Len(s) = 1 THEN DigitValue(s[1])
    ELSE parseInt(SubSeq(s, 1, Len(s) - 1)) * 10 + DigitValue(s[Len(s)])

null == <<>>

----------------------------------------------------------------------------
(* usage_quotas rows *)

QuotaRow(s, h, t, o, d, g, th, c, fe) ==
    [monthly_script_limit |-> s, monthly_hooks_limit |-> h,
     monthly_titles_limit |-> t, monthly_outline_limit |-> o,
     monthly_description_limit |-> d, monthly_tags_limit |-> g,
     monthly_thumbnail_limit |-> th, monthly_ctas_limit |-> c,
     features_enabled |-> fe]

SeedRows ==
    [free |-> QuotaRow(5, 10, 20, 5, 5, 10, 10, 10, Features),
     premium |-> QuotaRow(50, 100, 200, 50, 50, 100, 100, 100, Features),
     pro |-> QuotaRow(200, 400, 800, 200, 200, 400, 400, 400, Features)]

SeededLevels == {"free", "premium", "pro"}

AccessLevels == SeededLevels \cup {"vip"}   \* access_level is free text: "vip" has no seed row

----------------------------------------------------------------------------
(* The queries of checkQuota, as the store answers them *)

\* (a bug: a user without a row taken for a free one)
SelectUserOrFree(userId) ==
    <<[access_level |-> IF userId \in DOMAIN users THEN users[userId] ELSE "free"]>>

\* SELECT access_level FROM users WHERE id = $1
SelectUser(userId) ==
    IF userId \in DOMAIN users THEN <<[access_level |-> users[userId]]>> ELSE <<>>

\* SELECT * FROM usage_quotas WHERE access_level = $1
SelectQuota(accessLevel) ==
    IF accessLevel \in DOMAIN usage_quotas THEN <<usage_quotas[accessLevel]>> ELSE <<>>

\* (a bug: the period never starts)
CountsAgainstQuotaEver(row, userId, featureType) ==
    /\ row.user_id = userId
    /\ row.feature_type = featureType
    /\ row.success = TRUE

\* (a bug: the period starts a month late)
CountsAgainstQuotaLate(row, userId, featureType) ==
    /\ row.user_id = userId
    /\ row.feature_type = featureType
    /\ row.success = TRUE
    /\ row.created_month > month

\* WHERE user_id = $1 AND feature_type = $2 AND success = true
\*   AND created_at >= DATE_TRUNC('month', CURRENT_TIMESTAMP)
CountsAgainstQuota(row, userId, featureType) ==
    /\ row.user_id = userId
    /\ row.feature_type = featureType
    /\ row.success = TRUE
    /\ row.created_month >= month

RECURSIVE CountRows(_, _, _)
CountRows(logs, userId, featureType) ==
    IF logs = <<>> THEN 0
    ELSE (IF CountsAgainstQuota(Head(logs), userId, featureType) THEN 1 ELSE 0)
         + CountRows(Tail(logs), userId, featureType)

\* (a bug: the count never read from the ledger)
SelectUsageCountNone(userId, featureType) == <<[count |-> NumberToString(0)]>>

\* SELECT COUNT(*) as count ...: pg hands a bigint back as a decimal string
SelectUsageCount(userId, featureType) ==
    <<[count |-> NumberToString(CountRows(usage_logs, userId, featureType))]>>

----------------------------------------------------------------------------
(* checkQuota: the switch and the four kinds of result *)

KnownFeature(featureType) == featureType \in Features

LimitOf(quotaData, featureType) ==
    CASE featureType = "script" -> quotaData.monthly_script_limit
      [] featureType = "hooks" -> quotaData.monthly_hooks_limit
      [] featureType = "titles" -> quotaData.monthly_titles_limit
      [] featureType = "outline" -> quotaData.monthly_outline_limit
      [] featureType = "description" -> quotaData.monthly_description_limit
      [] featureType = "tags" -> quotaData.monthly_tags_limit
      [] featureType = "thumbnail" -> quotaData.monthly_thumbnail_limit
      [] featureType = "ctas" -> quotaData.monthly_ctas_limit

\* a result that returns early carries no currentUsage and no limit
Denied(reason) == [allowed |-> FALSE, reason |-> reason]

UserNotFound == Denied(<<"User not found">>)
NoQuotaFound == Denied(<<"No quota found">>)
FeatureNotAvailable == Denied(<<"Feature not available in your plan">>)
UnknownFeatureType == Denied(<<"Unknown feature type">>)
\* (a bug: the catch block failing open)
QuotaCheckFailedOpen == [allowed |-> TRUE, reason |-> null]

\* catch (error) { return { allowed: false, reason: 'Quota check failed' } }
QuotaCheckFailed == Denied(<<"Quota check failed">>)

MonthlyLimitReason(limit) ==
    <<"Monthly limit of ">> \o NumberToString(limit) \o <<" reached">>

\* (a bug: the comparison off by one)
AllowedUpTo(currentUsage, limit) == currentUsage <= limit

Allowed(currentUsage, limit) == currentUsage < limit

QuotaResult(currentUsage, limit) ==
    [allowed |-> Allowed(currentUsage, limit),
     currentUsage |-> currentUsage,
     limit |-> limit,
     reason |-> IF currentUsage >= limit THEN MonthlyLimitReason(limit) ELSE null]

\* (a bug: the features_enabled test left out)
FeatureEnabledAlways(quotaData, featureType) == TRUE

FeatureEnabled(quotaData, featureType) == featureType \in quotaData.features_enabled

----------------------------------------------------------------------------
(* A request: the locals of its handler, and what it has done so far *)

\* CREATE TABLE saved_scripts: id SERIAL; no row yet
NoScripts == [seq |-> 0, rows |-> <<>>]

NewReq ==
    [pc |-> "new", route |-> "none", file |-> "none", ip |-> 0, userId |-> 0,
     email |-> 0, password |-> "none", scriptId |-> 0,
     featureType |-> "none", body |-> {}, accessLevel |-> "none",
     quotaData |-> <<>>, quotaCheck |-> <<>>, pending |-> <<>>,
     responseOk |-> TRUE, status |-> 0, resBody |-> <<>>, thrown |-> null,
     seen |-> [auth |-> 0, api |-> 0, generation |-> 0], passed |-> {},
     queries |-> 0, storeFailed |-> FALSE, tokenAccessLevel |-> "none",
     fetched |-> FALSE, quotaCalls |-> 0, logCalls |-> 0, inserted |-> 0]

Final == {"done", "returned"}

\* res.status(status).json(resBody): the handler is over
Respond(rec, status, resBody) ==
    [rec EXCEPT !.pc = "done", !.status = status, !.resBody = resBody,
                !.accessLevel = "none", !.quotaData = <<>>]

----------------------------------------------------------------------------
(* checkQuota, one step per query; the caller goes on in the same step      *)
(* when checkQuota returns without another query                            *)

\* what the caller does with the result q of checkQuota: a bare call keeps it
ReturnQuota(rec, q) ==
    [rec EXCEPT !.pc = "returned", !.quotaCheck = <<q>>,
                !.accessLevel = "none", !.quotaData = <<>>]

\* const checkQuota = async (userId, featureType) => { try { pool.query(users)
CallCheckQuota(rec, userId, featureType) ==
    [rec EXCEPT !.pc = "quota_user", !.userId = userId, !.featureType = featureType,
                !.quotaCalls = @ + 1, !.queries = @ + 1]

\* (a bug: the tier taken from the token instead of the row read)
QuotaUserStepFromToken(rec, ok) ==
    IF ~ok THEN [done |-> TRUE, q |-> QuotaCheckFailed,
                 rec |-> [rec EXCEPT !.storeFailed = TRUE]]
    ELSE IF Len(SelectUser(rec.userId)) = 0
         THEN [done |-> TRUE, q |-> UserNotFound, rec |-> rec]
    ELSE [done |-> FALSE, q |-> QuotaCheckFailed,
          rec |-> [rec EXCEPT !.pc = "quota_policy", !.queries = @ + 1,
                              !.accessLevel = rec.tokenAccessLevel]]

\* the users query came back: rows, or the store failed (ok = FALSE)
QuotaUserStep(rec, ok) ==
    IF ~ok THEN [done |-> TRUE, q |-> QuotaCheckFailed,
                 rec |-> [rec EXCEPT !.storeFailed = TRUE]]
    ELSE IF Len(SelectUser(rec.userId)) = 0
         THEN [done |-> TRUE, q |-> UserNotFound, rec |-> rec]
    ELSE [done |-> FALSE, q |-> QuotaCheckFailed,
          rec |-> [rec EXCEPT !.pc = "quota_policy", !.queries = @ + 1,
                              !.accessLevel = SelectUser(rec.userId)[1].access_level]]

\* the usage_quotas query came back; the features_enabled test follows at once
QuotaPolicyStep(rec, ok) ==
    IF ~ok THEN [done |-> TRUE, q |-> QuotaCheckFailed,
                 rec |-> [rec EXCEPT !.storeFailed = TRUE]]
    ELSE IF Len(SelectQuota(rec.accessLevel)) = 0
         THEN [done |-> TRUE, q |-> NoQuotaFound, rec |-> rec]
    ELSE IF ~FeatureEnabled(SelectQuota(rec.accessLevel)[1], rec.featureType)
         THEN [done |-> TRUE, q |-> FeatureNotAvailable, rec |-> rec]
    ELSE [done |-> FALSE, q |-> QuotaCheckFailed,
          rec |-> [rec EXCEPT !.pc = "quota_count", !.queries = @ + 1,
                              !.quotaData = SelectQuota(rec.accessLevel)]]

\* the COUNT query came back: parseInt, the switch, the comparison
QuotaCountStep(rec, ok) ==
    IF ~ok THEN QuotaCheckFailed
    ELSE IF ~KnownFeature(rec.featureType) THEN UnknownFeatureType
    ELSE QuotaResult(parseInt(SelectUsageCount(rec.userId, rec.featureType)[1].count),
                     LimitOf(rec.quotaData[1], rec.featureType))

----------------------------------------------------------------------------
(* The generation routes: names in scope, bodies, texts *)

\* const { ... } = req.body, the first statement inside try
Destructured(route) ==
    CASE route = "script" ->
           {"topic", "audience", "duration", "tone", "videoType", "keywords",
            "customPrompt", "voicePreset"}
      [] route = "hooks" -> {"topic", "audience", "videoType", "tone", "voicePreset"}
      [] route = "titles" -> {"topic", "audience", "videoType"}

\* the names of the object literal passed to logUsage as metadata
MetadataNames(route) ==
    CASE route = "script" ->
           {"topic", "audience", "duration", "tone", "videoType", "voicePreset"}
      [] route = "hooks" -> {"topic", "audience", "videoType", "tone"}
      [] route = "titles" -> {"topic", "audience", "videoType"}

\* the names a catch block can read: those of the function body and its own;
\* a const declared inside the try block is not among them
CatchScope(route) ==
    {"req", "res", "error"}
        \cup (IF route = "script" THEN {"startTime", "processingTime"} ELSE {})

\* request bodies the callers send
Bodies(route) ==
    IF route = "script"
    THEN {Destructured(route), Destructured(route) \ {"duration"}}
    ELSE {Destructured(route)}

Files == {"server", "routes"}   \* lines 1026-1292, and the routes of lines 6-386

\* what the remote service may answer as content[0].text
Fence == "<fence>"             \* three backticks, with the newline after them if any
FenceJson == "<fence>json"     \* three backticks and json, with the newline if any
Texts == {<<"prose">>, <<"JSON">>, <<FenceJson, "JSON", Fence>>, <<FenceJson, "prose", Fence>>}

\* the two .replace(..., "") calls: every fence marker is removed
StripFences(text) == SelectSeq(text, LAMBDA piece : piece \notin {Fence, FenceJson})

\* JSON.parse succeeds on a JSON text and throws on anything else
JsonParses(text) == text = <<"JSON">>

\* JSON.stringify(metadata): a key whose value is undefined is left out
Stringify(metadata) ==
    IF metadata = <<>> THEN [json |-> "null", keys |-> {}]
    ELSE [json |-> "object", keys |-> metadata[1].names \cap metadata[1].body]

----------------------------------------------------------------------------
(* logUsage: the call, with the arguments of each call site bound to the   *)
(* seven parameters, and the insert                                        *)

\* (a bug: the feature type copied from the script route)
LogUsageArgsCopied(rec, success, message) ==
    <<rec.userId, "script", success, 0, 0, message,
      <<[names |-> MetadataNames(rec.route), body |-> rec.body]>> >>

\* the argument list of the call site; an object literal is <<[names, body]>>
LogUsageArgs(rec, success, message) ==
    IF rec.file = "server"
    THEN <<rec.userId, rec.route, success, 0, 0, message,
           <<[names |-> MetadataNames(rec.route), body |-> rec.body]>> >>
    ELSE <<rec.userId, rec.route, success, 0, 0, null, null, message,
           <<[names |-> MetadataNames(rec.route), body |-> rec.body]>> >>

\* (userId, featureType, success, processingTime, tokensUsed, errorMessage, metadata)
LogUsageRow(args) ==
    [user_id |-> args[1], feature_type |-> args[2], success |-> args[3],
     error_message |-> args[6], metadata |-> Stringify(args[7])]

CallLogUsage(rec, success, message) ==
    [rec EXCEPT !.pc = "log", !.logCalls = @ + 1,
                !.pending = <<LogUsageRow(LogUsageArgs(rec, success, message))>>]

\* (a bug: the ledger keeping the latest record only)
InsertUsageLatestOnly(logs, row) ==
    <<[user_id |-> row.user_id, feature_type |-> row.feature_type,
       success |-> row.success, error_message |-> row.error_message,
       metadata |-> row.metadata, created_month |-> month]>>

\* INSERT INTO usage_logs ...; created_at DEFAULT CURRENT_TIMESTAMP
InsertUsage(logs, row) ==
    Append(logs, [user_id |-> row.user_id, feature_type |-> row.feature_type,
                  success |-> row.success, error_message |-> row.error_message,
                  metadata |-> row.metadata, created_month |-> month])

FailedText(route) ==
    CASE route = "script" -> <<"Script generation failed">>
      [] route = "hooks" -> <<"Hooks generation failed">>
      [] route = "titles" -> <<"Titles generation failed">>

\* (a bug: logUsage rethrowing the error of its insert)
AfterLogUsageRethrown(rec) ==
    IF rec.pending[1].success /\ rec.inserted > 0
    THEN Respond([rec EXCEPT !.pending = <<>>], 200, <<"content">>)
    ELSE Respond([rec EXCEPT !.pending = <<>>], 500, FailedText(rec.route))

\* after await logUsage(...): res.json(content) in try, res.status(500) in catch
AfterLogUsage(rec) ==
    IF rec.pending[1].success
    THEN Respond([rec EXCEPT !.pending = <<>>], 200, <<"content">>)
    ELSE Respond([rec EXCEPT !.pending = <<>>], 500, FailedText(rec.route))

----------------------------------------------------------------------------
(* The handler after the quota check *)

\* the handler's promise rejects; fw is what the framework answers, 0 = nothing
Rejected(rec, error, fw) ==
    [Respond(rec, fw, IF fw = 0 THEN <<>> ELSE <<"Internal Server Error">>)
        EXCEPT !.thrown = error]

\* catch (error) { ...; await logUsage(..., error.message, { topic, ... }); ... }
Catch(rec, message, fw) ==
    IF MetadataNames(rec.route) \subseteq CatchScope(rec.route)
    THEN CallLogUsage(rec, FALSE, message)
    ELSE Rejected(rec, <<"ReferenceError">>, fw)

\* await fetch("https://api.anthropic.com/v1/messages", ...)
CallFetch(rec) == [rec EXCEPT !.pc = "fetch", !.fetched = TRUE]

\* the prompt template: parseInt(duration.split('-')[0]) throws without duration
BuildPrompt(rec, fw) ==
    IF rec.route = "script" /\ "duration" \notin rec.body
    THEN Catch(rec, <<"Cannot read properties of undefined">>, fw)
    ELSE CallFetch(rec)

\* if (!quotaCheck.allowed) return res.status(429)...; else the voice prompt
\* (a bug: the return on a denial left out)
AfterCheckQuotaNoReturn(rec, q) ==
    IF rec.route \in {"script", "hooks"}
    THEN [rec EXCEPT !.quotaCheck = <<q>>, !.pc = "voice",
                     !.accessLevel = "none", !.quotaData = <<>>]
    ELSE CallFetch([rec EXCEPT !.quotaCheck = <<q>>,
                               !.accessLevel = "none", !.quotaData = <<>>])

\* (titles has no voice prompt, and its template cannot throw)
AfterCheckQuota(rec, q) ==
    IF ~q.allowed
    THEN Respond([rec EXCEPT !.quotaCheck = <<q>>], 429, q.reason)
    ELSE IF rec.route \in {"script", "hooks"}
         THEN [rec EXCEPT !.quotaCheck = <<q>>, !.pc = "voice",
                          !.accessLevel = "none", !.quotaData = <<>>]
    ELSE CallFetch([rec EXCEPT !.quotaCheck = <<q>>,
                               !.accessLevel = "none", !.quotaData = <<>>])

OnQuota(rec, q) ==
    IF rec.route = "checkQuota" THEN ReturnQuota(rec, q) ELSE AfterCheckQuota(rec, q)

\* fetch settled: a network error, or a response with or without an OK status
FetchOutcomes == {"error", "ok", "not_ok"}

AfterFetch(rec, outcome, fw) ==
    IF outcome = "error" THEN Catch(rec, <<"fetch failed">>, fw)
    ELSE IF rec.route = "script" /\ outcome = "not_ok"
         THEN Catch(rec, <<"API request failed: ", "status">>, fw)
    ELSE [rec EXCEPT !.pc = "json", !.responseOk = (outcome = "ok")]

\* (a bug: the text of hooks and titles taken as content without JSON.parse)
AfterJsonUnparsed(rec, payload, fw) ==
    IF payload = <<"malformed">> THEN Catch(rec, <<"Unexpected token">>, fw)
    ELSE IF payload = <<"no_content">> \/ ~rec.responseOk
         THEN Catch(rec, <<"Cannot read properties of undefined">>, fw)
    ELSE CallLogUsage(rec, TRUE, null)

\* response.json() settled: malformed body, a body without content, or a text
AfterJson(rec, payload, fw) ==
    IF payload = <<"malformed">> THEN Catch(rec, <<"Unexpected token">>, fw)
    ELSE IF payload = <<"no_content">> \/ ~rec.responseOk
         THEN Catch(rec, <<"Cannot read properties of undefined">>, fw)
    ELSE IF rec.route \in {"hooks", "titles"} /\ ~JsonParses(StripFences(payload))
         THEN Catch(rec, <<"Unexpected token">>, fw)
    ELSE CallLogUsage(rec, TRUE, null)

----------------------------------------------------------------------------
(* The bag of requests *)

Reqs == BagToSet(req)

One(rec) == SetToBag({rec})

\* request rec takes a step and becomes rec2
Move(rec, rec2) == req' = (req (-) One(rec)) (+) One(rec2)

\* a request arrives; with cap requests held, it takes the place of an answered one
Admit(rec, cap) ==
    IF BagCardinality(req) < cap
    THEN req' = req (+) One(rec)
    ELSE \E old \in Reqs : old.pc \in Final /\ req' = (req (-) One(old)) (+) One(rec)

Pending == {rec \in Reqs : rec.pc \notin Final}

InFlight == BagCardinality([rec \in Pending |-> req[rec]])

----------------------------------------------------------------------------
(* Actions *)

Scopes == {"auth", "api", "generation"}
Ips == {"ipA", "ipB"}   \* req.ip, the key of a limiter's store
Clients == {"ipA"}      \* the client of the runs with one client
NoHits == [s \in Scopes |-> [ip \in Ips |-> [totalHits |-> 0, resetTime |-> 0]]]

FrameworkAnswers == {0, 500}   \* nothing (the request hangs), or the framework's own 500

\* (a bug: the check writing the attempt into the ledger)
CheckQuotaCallLogging(userId, featureType) ==
    /\ Admit(CallCheckQuota([NewReq EXCEPT !.route = "checkQuota"], userId, featureType), 1)
    /\ usage_logs' = Append(usage_logs,
                            [user_id |-> userId, feature_type |-> featureType,
                             success |-> TRUE, error_message |-> null,
                             metadata |-> Stringify(null), created_month |-> month])
    /\ UNCHANGED <<users, usage_quotas, saved_scripts, month, now, hits>>

\* a bare call checkQuota(userId, featureType)
CheckQuotaCall(userId, featureType) ==
    /\ Admit(CallCheckQuota([NewReq EXCEPT !.route = "checkQuota"], userId, featureType), 1)
    /\ UNCHANGED <<users, usage_quotas, usage_logs, saved_scripts, month, now, hits>>

QuotaUser(rec, ok) ==
    /\ rec.pc = "quota_user"
    /\ LET s == QuotaUserStep(rec, ok)
       IN Move(rec, IF s.done THEN OnQuota(s.rec, s.q) ELSE s.rec)
    /\ UNCHANGED <<users, usage_quotas, usage_logs, saved_scripts, month, now, hits>>

QuotaPolicy(rec, ok) ==
    /\ rec.pc = "quota_policy"
    /\ LET s == QuotaPolicyStep(rec, ok)
       IN Move(rec, IF s.done THEN OnQuota(s.rec, s.q) ELSE s.rec)
    /\ UNCHANGED <<users, usage_quotas, usage_logs, saved_scripts, month, now, hits>>

QuotaCount(rec, ok) ==
    /\ rec.pc = "quota_count"
    /\ Move(rec, OnQuota([rec EXCEPT !.storeFailed = ~ok], QuotaCountStep(rec, ok)))
    /\ UNCHANGED <<users, usage_quotas, usage_logs, saved_scripts, month, now, hits>>

----------------------------------------------------------------------------
(* checkQuota as a function: tables and ledger drawn from bounded sets *)

TunedRow(limit, enabled) ==
    QuotaRow(limit, limit + 1, limit + 2, limit, limit + 1, limit + 2, limit,
             limit + 1, enabled)

EnabledSets == {Features, Features \ {"script"}, {"script", "other"}}

FreeRows ==
    {SeedRows.free} \cup {TunedRow(l, fe) : l \in 0..MaxLimit, fe \in EnabledSets}

QuotaTables ==
    {[level \in SeededLevels |-> IF level = "free" THEN row ELSE SeedRows[level]] :
        row \in FreeRows}

UserTables == UNION {[1..n -> {"free", "vip"}] : n \in 0..MaxUsers}

LogRow(userId, featureType, success, createdMonth) ==
    [user_id |-> userId, feature_type |-> featureType, success |-> success,
     error_message |-> IF success THEN null ELSE <<"fetch failed">>,
     metadata |-> [json |-> "object", keys |-> MetadataNames(featureType)],
     created_month |-> createdMonth]

Repeat(n, row) == [i \in 1..n |-> row]

\* a ledger in creation order: last month's rows, then this month's
Ledger(nOld, nOther, nCur, nFail, m) ==
    Repeat(nOld, LogRow(1, "script", TRUE, m - 1))
        \o Repeat(nOther, LogRow(2, "script", TRUE, m))
        \o Repeat(nCur, LogRow(1, "script", TRUE, m))
        \o Repeat(nFail, LogRow(1, "script", FALSE, m))
        \o Repeat(nOther, LogRow(1, "hooks", TRUE, m))

Ledgers(m) ==
    {Ledger(nOld, nOther, nCur, nFail, m) :
        nOld \in 0..1, nOther \in 0..1, nCur \in 0..MaxInitLogs, nFail \in 0..1}

InitQuota ==
    /\ users \in UserTables
    /\ usage_quotas \in QuotaTables
    /\ month = 1
    /\ usage_logs \in Ledgers(1)
    /\ now = 0
    /\ hits = NoHits
    /\ saved_scripts = NoScripts
    /\ req = EmptyBag

NextQuota ==
    \/ \E userId \in UserIds, featureType \in Features \cup {"other"} :
          CheckQuotaCall(userId, featureType)
    \/ \E rec \in Reqs, ok \in BOOLEAN : QuotaUser(rec, ok)
    \/ \E rec \in Reqs, ok \in BOOLEAN : QuotaPolicy(rec, ok)
    \/ \E rec \in Reqs, ok \in BOOLEAN : QuotaCount(rec, ok)

SpecQuota == InitQuota /\ [][NextQuota]_vars

----------------------------------------------------------------------------
(* The generation handlers, from the first statement of the async function *)

\* the ledger stays within base + MaxLogs rows when every request in flight logs
Capacity(base) == Len(usage_logs) + InFlight < base + MaxLogs

Arrival(route, file, userId, body) ==
    [NewReq EXCEPT !.route = route, !.file = file, !.userId = userId, !.body = body]

\* (a bug: the remote call started before the quota check is awaited)
EnterHandlerFetching(rec) ==
    [CallCheckQuota(rec, rec.userId, rec.route) EXCEPT !.fetched = TRUE]

\* try { const {...} = req.body; const quotaCheck = await checkQuota(userId, '<route>')
EnterHandler(rec) == CallCheckQuota(rec, rec.userId, rec.route)

\* app.post('/api/generate/script', ..., async (req, res) => { ... checkQuota(.., 'script')
GenerateScript(file, userId, body, cap) ==
    /\ Admit(EnterHandler(Arrival("script", file, userId, body)), cap)
    /\ UNCHANGED <<users, usage_quotas, usage_logs, saved_scripts, month, now, hits>>

\* app.post('/api/generate/hooks', ...
GenerateHooks(file, userId, body, cap) ==
    /\ Admit(EnterHandler(Arrival("hooks", file, userId, body)), cap)
    /\ UNCHANGED <<users, usage_quotas, usage_logs, saved_scripts, month, now, hits>>

\* app.post('/api/generate/titles', ...
GenerateTitles(file, userId, body, cap) ==
    /\ Admit(EnterHandler(Arrival("titles", file, userId, body)), cap)
    /\ UNCHANGED <<users, usage_quotas, usage_logs, saved_scripts, month, now, hits>>

\* await getVoicePrompt(...) settled (it never throws); then the prompt template
Voice(rec, fw) ==
    /\ rec.pc = "voice"
    /\ Move(rec, BuildPrompt(rec, fw))
    /\ UNCHANGED <<users, usage_quotas, usage_logs, saved_scripts, month, now, hits>>

Fetch(rec, outcome, fw) ==
    /\ rec.pc = "fetch"
    /\ Move(rec, AfterFetch(rec, outcome, fw))
    /\ UNCHANGED <<users, usage_quotas, usage_logs, saved_scripts, month, now, hits>>

Payloads == {<<"malformed">>, <<"no_content">>} \cup Texts

Json(rec, payload, fw) ==
    /\ rec.pc = "json"
    /\ Move(rec, AfterJson(rec, payload, fw))
    /\ UNCHANGED <<users, usage_quotas, usage_logs, saved_scripts, month, now, hits>>

\* the insert of logUsage settled: the row is there, or the error was swallowed
LogUsage(rec, ok) ==
    /\ rec.pc = "log"
    /\ usage_logs' = IF ok THEN InsertUsage(usage_logs, rec.pending[1]) ELSE usage_logs
    /\ Move(rec, AfterLogUsage([rec EXCEPT !.inserted = IF ok THEN @ + 1 ELSE @]))
    /\ UNCHANGED <<users, usage_quotas, saved_scripts, month, now, hits>>

\* the calendar month turns
NextMonth ==
    /\ month < MaxMonth
    /\ month' = month + 1
    /\ UNCHANGED <<users, usage_quotas, usage_logs, saved_scripts, now, hits, req>>

----------------------------------------------------------------------------
(* The orchestrator under concurrent requests of one user *)

AllFree == [u \in UserIds |-> "free"]

Callers == {1}   \* the user whose token the generation requests carry

OrchestratorTables ==
    {[level \in SeededLevels |->
        IF level = "free" THEN TunedRow(l, Features) ELSE SeedRows[level]] :
        l \in 1..MaxLimit}

Init ==
    /\ users = AllFree
    /\ usage_quotas \in OrchestratorTables
    /\ month = 1
    /\ usage_logs = <<>>
    /\ now = 0
    /\ hits = NoHits
    /\ saved_scripts = NoScripts
    /\ req = EmptyBag

Handle(rec) ==
    \/ \E ok \in BOOLEAN : QuotaUser(rec, ok)
    \/ \E ok \in BOOLEAN : QuotaPolicy(rec, ok)
    \/ \E ok \in BOOLEAN : QuotaCount(rec, ok)
    \/ \E fw \in FrameworkAnswers : Voice(rec, fw)
    \/ \E outcome \in FetchOutcomes, fw \in FrameworkAnswers : Fetch(rec, outcome, fw)
    \/ \E payload \in Payloads, fw \in FrameworkAnswers : Json(rec, payload, fw)

Next ==
    \/ \E userId \in Callers, body \in Bodies("script") :
          Capacity(0) /\ GenerateScript("server", userId, body, MaxInFlight)
    \/ \E userId \in Callers, body \in Bodies("hooks") :
          Capacity(0) /\ GenerateHooks("server", userId, body, MaxInFlight)
    \/ \E userId \in Callers, body \in Bodies("titles") :
          Capacity(0) /\ GenerateTitles("server", userId, body, MaxInFlight)
    \/ \E rec \in Reqs : Handle(rec)
    \/ \E rec \in Reqs, ok \in BOOLEAN : LogUsage(rec, ok)

Spec == Init /\ [][Next]_vars

\* the same requests with room in the ledger for the limit and one record of
\* every request that can be in flight beside it
NextRace ==
    \/ \E userId \in Callers, body \in {Destructured("script")} :
          Capacity(MaxInFlight) /\ GenerateScript("server", userId, body, MaxInFlight)
    \/ \E userId \in Callers, body \in Bodies("hooks") :
          Capacity(MaxInFlight) /\ GenerateHooks("server", userId, body, MaxInFlight)
    \/ \E userId \in Callers, body \in Bodies("titles") :
          Capacity(MaxInFlight) /\ GenerateTitles("server", userId, body, MaxInFlight)
    \/ \E rec \in Reqs : Handle(rec)
    \/ \E rec \in Reqs, ok \in BOOLEAN : LogUsage(rec, ok)

SpecRace == Init /\ [][NextRace]_vars

----------------------------------------------------------------------------
(* The orchestrator when requests are handled one at a time (so that no two *)
(* requests of a user for a feature overlap) and every insert into          *)
(* usage_logs succeeds                                                      *)

NoOverlap(userId, route) ==
    \A rec \in Pending : ~(rec.userId = userId /\ rec.route = route)

SeedTable == [level \in SeededLevels |-> SeedRows[level]]

\* user 1 is one script short of the seeded free limit
SeedPrefill == SeedRows.free.monthly_script_limit - 1

TunedTables ==
    {[level \in SeededLevels |->
        IF level = "free" THEN TunedRow(l, Features) ELSE SeedRows[level]] :
        l \in 0..MaxLimit}

Prefilled == IF usage_quotas = SeedTable THEN SeedPrefill ELSE 0

InitSeq ==
    /\ users = AllFree
    /\ \/ usage_quotas \in TunedTables /\ usage_logs = <<>>
       \/ usage_quotas = SeedTable
          /\ usage_logs = Repeat(SeedPrefill, LogRow(1, "script", TRUE, 1))
    /\ month = 1
    /\ now = 0
    /\ hits = NoHits
    /\ saved_scripts = NoScripts
    /\ req = EmptyBag

NextSeq ==
    \/ \E file \in Files, userId \in Callers, body \in Bodies("script") :
          /\ Capacity(Prefilled) /\ NoOverlap(userId, "script")
          /\ GenerateScript(file, userId, body, 1)
    \/ \E file \in Files, userId \in Callers, body \in Bodies("hooks") :
          /\ Capacity(Prefilled) /\ NoOverlap(userId, "hooks")
          /\ GenerateHooks(file, userId, body, 1)
    \/ \E file \in Files, userId \in Callers, body \in Bodies("titles") :
          /\ Capacity(Prefilled) /\ NoOverlap(userId, "titles")
          /\ GenerateTitles(file, userId, body, 1)
    \/ \E rec \in Reqs : Handle(rec)
    \/ \E rec \in Reqs : LogUsage(rec, TRUE)
    \/ NextMonth

SpecSeq == InitSeq /\ [][NextSeq]_vars

\* every awaited store access and remote call settles: a handler that can take
\* its next step takes it, and so does the insert of logUsage
Settling ==
    /\ WF_vars(\E rec \in Reqs : Handle(rec))
    /\ WF_vars(\E rec \in Reqs : LogUsage(rec, TRUE))

SpecLive == SpecSeq /\ Settling

----------------------------------------------------------------------------
(* The rate limiters.  rateLimit(options) keeps, per client key (the ip), a *)
(* hit count and the time its window ends; a hit that finds no live window  *)
(* opens one of windowMs, and a request whose hit count exceeds max is      *)
(* answered 429 with the configured message, the next middleware not called *)

\* (a bug: one attempt too many allowed)
authLimiterSix ==
    [windowMs |-> 15 * 60 * 1000, max |-> 6,
     message |-> <<"Too many authentication attempts">>]

authLimiter ==
    [windowMs |-> 15 * 60 * 1000, max |-> 5,
     message |-> <<"Too many authentication attempts">>]

apiLimiter ==
    [windowMs |-> 60 * 1000, max |-> 30, message |-> <<"Rate limit exceeded">>]

generationLimiter ==
    [windowMs |-> 60 * 1000, max |-> 10,
     message |-> <<"Generation rate limit exceeded">>]

Limiter(scope) ==
    CASE scope = "auth" -> authLimiter
      [] scope = "api" -> apiLimiter
      [] scope = "generation" -> generationLimiter

\* the window of key ip in a limiter's store is still open
Live(scope, ip) == hits[scope][ip].totalHits > 0 /\ now < hits[scope][ip].resetTime

\* (a bug: one count for every key, kept under the busiest)
IncrementShared(scope, ip) ==
    LET key == CHOOSE k \in Ips :
                   \A j \in Ips : hits[scope][j].totalHits <= hits[scope][k].totalHits
    IN IF Live(scope, key)
       THEN [hits[scope][key] EXCEPT !.totalHits = @ + 1]
       ELSE [totalHits |-> 1, resetTime |-> now + Limiter(scope).windowMs]

\* store.increment(key): the hit is counted whether or not it is admitted
Increment(scope, ip) ==
    IF Live(scope, ip)
    THEN [hits[scope][ip] EXCEPT !.totalHits = @ + 1]
    ELSE [totalHits |-> 1, resetTime |-> now + Limiter(scope).windowMs]

\* (a bug: no hit count is too many)
ExceededNever(totalHits, options) == FALSE

Exceeded(totalHits, options) == totalHits > options.max

\* (a bug: the 429 is sent and the next middleware called all the same)
RateLimitedThenNext(rec, options) ==
    [rec EXCEPT !.status = 429, !.resBody = options.message,
                !.seen = NewReq.seen]

\* res.status(429).send(options.message)
RateLimited(rec, options) ==
    Respond([rec EXCEPT !.seen = NewReq.seen], 429, options.message)

\* a middleware is over and calls next(): its locals are gone
CallNext(rec) == [rec EXCEPT !.seen = NewReq.seen]

Tokens == {"none", "invalid", "valid"}

\* authenticateToken: no token 401, jwt.verify fails 403, else req.user and next()
AuthenticateToken(rec, token) ==
    IF token = "none" THEN Respond(rec, 401, <<"Access token required">>)
    ELSE IF token = "invalid" THEN Respond(rec, 403, <<"Invalid token">>)
    ELSE [rec EXCEPT !.pc = "apiLimiter"]

LiveHits(scope, ip) == IF Live(scope, ip) THEN hits[scope][ip].totalHits ELSE 0

\* a client stops hitting a limiter MaxOver hits after its max; the first
\* client turns to a limiter with at most MaxMixed hits in an open window of the
\* other kind of route, the second client mixes the two kinds as it likes
WithinOver(scope, ip) ==
    /\ Increment(scope, ip).totalHits <= Limiter(scope).max + MaxOver
    /\ ip \in Clients => LiveHits(IF scope = "auth" THEN "api" ELSE "auth", ip) <= MaxMixed

\* a request to a generation route: authenticateToken, then apiLimiter counts it
Authenticated(route, file, ip, token, userId, body) ==
    LET rec == AuthenticateToken([Arrival(route, file, userId, body) EXCEPT !.ip = ip],
                                 token)
    IN IF rec.pc = "done"
       THEN Admit(rec, 1) /\ UNCHANGED hits
       ELSE /\ WithinOver("api", ip)
            /\ hits' = [hits EXCEPT !.api[ip] = Increment("api", ip)]
            /\ Admit([rec EXCEPT !.seen.api = Increment("api", ip).totalHits], 1)

\* app.post('/api/generate/script', authenticateToken, apiLimiter, generationLimiter, ...
PostGenerateScript(file, ip, token, userId, body) ==
    /\ Authenticated("script", file, ip, token, userId, body)
    /\ UNCHANGED <<users, usage_quotas, usage_logs, saved_scripts, month, now>>

PostGenerateHooks(file, ip, token, userId, body) ==
    /\ Authenticated("hooks", file, ip, token, userId, body)
    /\ UNCHANGED <<users, usage_quotas, usage_logs, saved_scripts, month, now>>

PostGenerateTitles(file, ip, token, userId, body) ==
    /\ Authenticated("titles", file, ip, token, userId, body)
    /\ UNCHANGED <<users, usage_quotas, usage_logs, saved_scripts, month, now>>

\* the limiter's verdict on a counted request: the 429, or next()
Limit(rec, scope) ==
    IF Exceeded(rec.seen[scope], Limiter(scope))
    THEN RateLimited(rec, Limiter(scope))
    ELSE CallNext([rec EXCEPT !.passed = @ \cup {scope}])

\* apiLimiter decides; on next() generationLimiter counts the request
ApiLimiter(rec) ==
    /\ rec.pc = "apiLimiter"
    /\ LET r == Limit(rec, "api")
       IN IF r.pc = "done"
          THEN Move(rec, r) /\ UNCHANGED hits
          ELSE /\ hits' = [hits EXCEPT
                              !.generation[rec.ip] = Increment("generation", rec.ip)]
               /\ Move(rec, [r EXCEPT
                               !.pc = "generationLimiter",
                               !.seen.generation =
                                   Increment("generation", rec.ip).totalHits])
    /\ UNCHANGED <<users, usage_quotas, usage_logs, saved_scripts, month, now>>

\* generationLimiter decides; on next() the handler runs to its first await
GenerationLimiter(rec) ==
    /\ rec.pc = "generationLimiter"
    /\ LET r == Limit(rec, "generation")
       IN Move(rec, IF r.pc = "done" THEN r ELSE EnterHandler(r))
    /\ UNCHANGED <<users, usage_quotas, usage_logs, saved_scripts, month, now, hits>>

----------------------------------------------------------------------------
(* Registration and login, behind authLimiter.  A user's email stands for   *)
(* the id its row has, or will get; every stored password is "good".        *)

Passwords == {"none", "short", "good", "wrong"}

\* the id the next INSERT INTO users is given
NextUserId == Cardinality(DOMAIN users) + 1

\* a request to an auth route: authLimiter counts it
Counted(route, ip, email, password) ==
    /\ WithinOver("auth", ip)
    /\ hits' = [hits EXCEPT !.auth[ip] = Increment("auth", ip)]
    /\ Admit([NewReq EXCEPT !.pc = "authLimiter", !.route = route, !.ip = ip,
                            !.email = email, !.password = password,
                            !.seen.auth = Increment("auth", ip).totalHits], 1)

\* app.post('/api/auth/register', authLimiter, async (req, res) => {
PostRegister(ip, email, password) ==
    /\ Counted("register", ip, email, password)
    /\ UNCHANGED <<users, usage_quotas, usage_logs, saved_scripts, month, now>>

\* app.post('/api/auth/login', authLimiter, async (req, res) => {
PostLogin(ip, email, password) ==
    /\ Counted("login", ip, email, password)
    /\ UNCHANGED <<users, usage_quotas, usage_logs, saved_scripts, month, now>>

\* register up to its first await: the two validations
EnterRegister(rec) ==
    IF rec.email = 0 \/ rec.password = "none"
    THEN Respond(rec, 400, <<"Email and password required">>)
    ELSE IF rec.password = "short"
         THEN Respond(rec, 400, <<"Password must be at least 6 characters">>)
    ELSE [rec EXCEPT !.pc = "register_lookup"]

\* login up to its first await
EnterLogin(rec) == [rec EXCEPT !.pc = "login_lookup"]

\* authLimiter decides; on next() the handler runs to its first await
AuthLimiter(rec) ==
    /\ rec.pc = "authLimiter"
    /\ LET r == Limit(rec, "auth")
       IN Move(rec, IF r.pc = "done" THEN r
                    ELSE IF rec.route = "register" THEN EnterRegister(r)
                    ELSE EnterLogin(r))
    /\ UNCHANGED <<users, usage_quotas, usage_logs, saved_scripts, month, now, hits>>

\* SELECT id FROM users WHERE email = $1 came back; then bcrypt.hash
RegisterLookup(rec, ok) ==
    /\ rec.pc = "register_lookup"
    /\ Move(rec, IF ~ok THEN Respond(rec, 500, <<"Registration failed">>)
                 ELSE IF rec.email \in DOMAIN users
                      THEN Respond(rec, 400, <<"User already exists">>)
                 ELSE [rec EXCEPT !.pc = "register_insert"])
    /\ UNCHANGED <<users, usage_quotas, usage_logs, saved_scripts, month, now, hits>>

\* INSERT INTO users (..., access_level, ...) VALUES (..., 'free', ...) came back;
\* the unique index on email refuses a second row
RegisterInsert(rec, ok) ==
    /\ rec.pc = "register_insert"
    /\ IF ok /\ rec.email \notin DOMAIN users
       THEN /\ users' = [id \in DOMAIN users \cup {rec.email} |->
                            IF id \in DOMAIN users THEN users[id] ELSE "free"]
            /\ Move(rec, Respond([rec EXCEPT !.userId = rec.email,
                                              !.tokenAccessLevel = "free"],
                                  200, <<"token">>))
       ELSE /\ Move(rec, Respond(rec, 500, <<"Registration failed">>))
            /\ UNCHANGED users
    /\ UNCHANGED <<usage_quotas, usage_logs, saved_scripts, month, now, hits>>

\* SELECT * FROM users WHERE email = $1 came back; then bcrypt.compare, and
\* jwt.sign({ userId, email, accessLevel: user.access_level, firstName })
LoginLookup(rec, ok) ==
    /\ rec.pc = "login_lookup"
    /\ Move(rec, IF ~ok THEN Respond(rec, 500, <<"Login failed">>)
                 ELSE IF rec.email \notin DOMAIN users \/ rec.password # "good"
                      THEN Respond(rec, 401, <<"Invalid credentials">>)
                 ELSE Respond([rec EXCEPT !.userId = rec.email,
                                          !.tokenAccessLevel = users[rec.email]],
                              200, <<"token">>))
    /\ UNCHANGED <<users, usage_quotas, usage_logs, saved_scripts, month, now, hits>>

----------------------------------------------------------------------------
(* One client behind the limiters, its requests one at a time, and a clock *)

TickSteps == {apiLimiter.windowMs \div 2, authLimiter.windowMs}

\* the steps the clock has made
Ticks == (now \div authLimiter.windowMs)
            + ((now % authLimiter.windowMs) \div (apiLimiter.windowMs \div 2))

\* the clock advances; the stores' timers drop the windows that have ended
Tick(dt) ==
    /\ Ticks < MaxTicks
    /\ now' = now + dt
    /\ hits' = [s \in Scopes |-> [ip \in Ips |->
                   IF hits[s][ip].totalHits > 0 /\ now' < hits[s][ip].resetTime
                   THEN hits[s][ip] ELSE NoHits[s][ip]]]
    /\ UNCHANGED <<users, usage_quotas, usage_logs, saved_scripts, month, req>>

\* free allows one script a month and no hooks or titles
LimiterTable ==
    [level \in SeededLevels |->
        IF level = "free" THEN QuotaRow(1, 0, 0, 0, 0, 0, 0, 0, Features)
        ELSE SeedRows[level]]

\* every id but the last has registered
InitRL ==
    /\ users = [id \in 1..(MaxUsers - 1) |-> "free"]
    /\ usage_quotas = LimiterTable
    /\ month = 1
    /\ usage_logs = <<>>
    /\ now = 0
    /\ hits = NoHits
    /\ saved_scripts = NoScripts
    /\ req = EmptyBag

AuthBodies ==
    {<<0, "good">>, <<1, "good">>, <<1, "wrong">>, <<NextUserId, "short">>,
     <<NextUserId, "good">>}

NextRL ==
    \/ \E ip \in Clients, token \in Tokens, userId \in Callers :
          PostGenerateScript("server", ip, token, userId, Destructured("script"))
    \/ \E ip \in Clients, token \in Tokens, userId \in Callers :
          PostGenerateHooks("server", ip, token, userId, Destructured("hooks"))
    \/ \E ip \in Clients, token \in Tokens, userId \in Callers :
          PostGenerateTitles("server", ip, token, userId, Destructured("titles"))
    \/ \E ip \in Clients, b \in AuthBodies :
          b[1] <= MaxUsers /\ PostRegister(ip, b[1], b[2])
    \/ \E ip \in Clients, b \in AuthBodies :
          b[1] <= MaxUsers /\ PostLogin(ip, b[1], b[2])
    \/ \E rec \in Reqs : ApiLimiter(rec)
    \/ \E rec \in Reqs : GenerationLimiter(rec)
    \/ \E rec \in Reqs : AuthLimiter(rec)
    \/ \E rec \in Reqs, ok \in BOOLEAN : RegisterLookup(rec, ok)
    \/ \E rec \in Reqs, ok \in BOOLEAN : RegisterInsert(rec, ok)
    \/ \E rec \in Reqs, ok \in BOOLEAN : LoginLookup(rec, ok)
    \/ \E rec \in Reqs : Handle(rec)
    \/ \E rec \in Reqs, ok \in BOOLEAN : LogUsage(rec, ok)
    \/ \E dt \in TickSteps : Tick(dt)

SpecRL == InitRL /\ [][NextRL]_vars

----------------------------------------------------------------------------
(* The profile and the saved scripts routes: authenticateToken, then the   *)
(* handler, which issues one query                                          *)

MaxScripts == 2        \* ids the sequence of saved_scripts hands out

\* a request to such a route: 401 or 403, or the handler up to its query
Plain(rec, token, pc) ==
    /\ token = "valid" => rec.userId \in DOMAIN users
    /\ LET r == AuthenticateToken(rec, token)
       IN Admit(IF r.pc = "done" THEN r ELSE [CallNext(r) EXCEPT !.pc = pc], 1)

\* app.get('/api/user/profile', authenticateToken, async (req, res) => {
GetProfile(ip, token, userId) ==
    /\ Plain([Arrival("profile", "server", userId, {}) EXCEPT !.ip = ip], token,
             "profile_query")
    /\ UNCHANGED <<users, usage_quotas, usage_logs, saved_scripts, month, now, hits>>

\* COUNT(CASE WHEN feature_type = '<f>' AND success = true THEN 1 END) over the
\* rows of the month, read back with parseInt(userData.<f>_this_month || 0)
ThisMonth(userId, featureType) ==
    NumberToString(parseInt(SelectUsageCount(userId, featureType)[1].count))

\* the joined SELECT came back: 500, 404 without a users row, or the profile
ProfileQuery(rec, ok) ==
    /\ rec.pc = "profile_query"
    /\ Move(rec, IF ~ok THEN Respond(rec, 500, <<"Failed to fetch profile">>)
                 ELSE IF rec.userId \notin DOMAIN users
                      THEN Respond(rec, 404, <<"User not found">>)
                 ELSE Respond(rec, 200,
                              <<"usage">> \o ThisMonth(rec.userId, "script")
                                  \o ThisMonth(rec.userId, "hooks")
                                  \o ThisMonth(rec.userId, "titles")))
    /\ UNCHANGED <<users, usage_quotas, usage_logs, saved_scripts, month, now, hits>>

\* bodies of a save request: with and without the NOT NULL topic
SaveBodies == {{"topic", "scriptContent"}, {"scriptContent"}}

\* app.post('/api/scripts/save', authenticateToken, async (req, res) => {
PostSave(ip, token, userId, body) ==
    /\ saved_scripts.seq < MaxScripts
    /\ Plain([Arrival("save", "server", userId, body) EXCEPT !.ip = ip], token,
             "save_insert")
    /\ UNCHANGED <<users, usage_quotas, usage_logs, saved_scripts, month, now, hits>>

\* INSERT INTO saved_scripts (user_id, title, topic, ...) RETURNING id came back.
\* The id is drawn from the sequence before the row is checked: a row without
\* topic (title || topic and topic are NOT NULL) is refused and its id is lost.
SaveInsert(rec, ok) ==
    /\ rec.pc = "save_insert"
    /\ LET id == saved_scripts.seq + 1
           row == [user_id |-> rec.userId,
                   title |-> IF "title" \in rec.body THEN "title" ELSE "topic"]
       IN IF ok /\ "topic" \in rec.body /\ rec.userId \in DOMAIN users
          THEN /\ saved_scripts' =
                    [seq |-> id,
                     rows |-> [i \in DOMAIN saved_scripts.rows \cup {id} |->
                                  IF i = id THEN row ELSE saved_scripts.rows[i]]]
               /\ Move(rec, Respond([rec EXCEPT !.scriptId = id], 200, <<"success">>))
          ELSE /\ saved_scripts' = [saved_scripts EXCEPT !.seq = IF ok THEN id ELSE @]
               /\ Move(rec, Respond([rec EXCEPT !.storeFailed = ~ok], 500,
                                    <<"Failed to save script">>))
    /\ UNCHANGED <<users, usage_quotas, usage_logs, month, now, hits>>

\* app.get('/api/scripts/saved', authenticateToken, async (req, res) => {
GetSaved(ip, token, userId) ==
    /\ Plain([Arrival("saved", "server", userId, {}) EXCEPT !.ip = ip], token,
             "saved_query")
    /\ UNCHANGED <<users, usage_quotas, usage_logs, saved_scripts, month, now, hits>>

\* SELECT * FROM saved_scripts WHERE user_id = $1: the ids of the user's rows
OwnedBy(userId) ==
    {id \in DOMAIN saved_scripts.rows : saved_scripts.rows[id].user_id = userId}

\* ... ORDER BY updated_at DESC: no route updates a row, the newest comes first
RECURSIVE Newest(_)
Newest(ids) ==
    IF ids = {} THEN <<>>
    ELSE LET id == CHOOSE i \in ids : \A j \in ids : j <= i
         IN NumberToString(id) \o Newest(ids \ {id})

SavedQuery(rec, ok) ==
    /\ rec.pc = "saved_query"
    /\ Move(rec, IF ~ok THEN Respond(rec, 500, <<"Failed to retrieve saved scripts">>)
                 ELSE Respond(rec, 200, <<"scripts">> \o Newest(OwnedBy(rec.userId))))
    /\ UNCHANGED <<users, usage_quotas, usage_logs, saved_scripts, month, now, hits>>

\* app.delete('/api/scripts/:id', authenticateToken, async (req, res) => {
DeleteScript(ip, token, userId, id) ==
    /\ Plain([Arrival("delete", "server", userId, {}) EXCEPT !.ip = ip, !.scriptId = id],
             token, "delete_query")
    /\ UNCHANGED <<users, usage_quotas, usage_logs, saved_scripts, month, now, hits>>

\* (a bug: the row found by its id alone)
DeletedAnyones(id, userId) == {id} \cap DOMAIN saved_scripts.rows

\* DELETE FROM saved_scripts WHERE id = $1 AND user_id = $2 RETURNING id
Deleted(id, userId) == {id} \cap OwnedBy(userId)

\* the DELETE came back: 500, 404 when it returned no row, or success
DeleteQuery(rec, ok) ==
    /\ rec.pc = "delete_query"
    /\ LET gone == IF ok THEN Deleted(rec.scriptId, rec.userId) ELSE {}
       IN /\ saved_scripts' =
               [saved_scripts EXCEPT
                   !.rows = [i \in DOMAIN saved_scripts.rows \ gone |->
                                saved_scripts.rows[i]]]
          /\ Move(rec, IF ~ok THEN Respond([rec EXCEPT !.storeFailed = TRUE], 500,
                                           <<"Failed to delete script">>)
                       ELSE IF gone = {} THEN Respond(rec, 404, <<"Script not found">>)
                       ELSE Respond(rec, 200, <<"success">>))
    /\ UNCHANGED <<users, usage_quotas, usage_logs, month, now, hits>>

\* the four routes' queries
Query(rec) ==
    \/ \E ok \in BOOLEAN : ProfileQuery(rec, ok)
    \/ \E ok \in BOOLEAN : SaveInsert(rec, ok)
    \/ \E ok \in BOOLEAN : SavedQuery(rec, ok)
    \/ \E ok \in BOOLEAN : DeleteQuery(rec, ok)

----------------------------------------------------------------------------
(* Every route behind authenticateToken, the generation routes through     *)
(* their limiters, for a client with a valid, an invalid or no token       *)

NextApi ==
    \/ \E ip \in Clients, token \in Tokens, userId \in Callers :
          PostGenerateScript("server", ip, token, userId, Destructured("script"))
    \/ \E ip \in Clients, token \in Tokens, userId \in Callers :
          PostGenerateHooks("server", ip, token, userId, Destructured("hooks"))
    \/ \E ip \in Clients, token \in Tokens, userId \in Callers :
          PostGenerateTitles("server", ip, token, userId, Destructured("titles"))
    \/ \E ip \in Clients, token \in Tokens, userId \in Callers :
          GetProfile(ip, token, userId)
    \/ \E ip \in Clients, token \in Tokens, userId \in Callers, body \in SaveBodies :
          PostSave(ip, token, userId, body)
    \/ \E ip \in Clients, token \in Tokens, userId \in Callers : GetSaved(ip, token, userId)
    \/ \E ip \in Clients, token \in Tokens, userId \in Callers, id \in 1..MaxScripts :
          DeleteScript(ip, token, userId, id)
    \/ \E rec \in Reqs : ApiLimiter(rec)
    \/ \E rec \in Reqs : GenerationLimiter(rec)
    \/ \E rec \in Reqs : Handle(rec)
    \/ \E rec \in Reqs, ok \in BOOLEAN : LogUsage(rec, ok)
    \/ \E rec \in Reqs : Query(rec)

SpecApi == InitRL /\ [][NextApi]_vars

----------------------------------------------------------------------------
(* initDB: the schema and the seeding of usage_quotas, run at every start  *)
(* of the server process                                                    *)

\* (a bug: the conflicting row's limit added to instead of replaced)
OnConflictAdding(row, excluded) ==
    [row EXCEPT !.monthly_script_limit = @ + excluded.monthly_script_limit]

\* ON CONFLICT (access_level) DO UPDATE SET
\*   monthly_script_limit = EXCLUDED.monthly_script_limit
OnConflict(row, excluded) ==
    [row EXCEPT !.monthly_script_limit = excluded.monthly_script_limit]

\* (a bug: a conflicting row replaced by the seed row)
SeedReplacing(table) ==
    [level \in DOMAIN table \cup SeededLevels |->
        IF level \in SeededLevels THEN SeedRows[level] ELSE table[level]]

\* INSERT INTO usage_quotas (...) VALUES ('free', ...), ('premium', ...), ('pro', ...)
Seed(table) ==
    [level \in DOMAIN table \cup SeededLevels |->
        IF level \notin SeededLevels THEN table[level]
        ELSE IF level \in DOMAIN table THEN OnConflict(table[level], SeedRows[level])
        ELSE SeedRows[level]]

\* initDB() at module load: one multi-statement query inside try; the catch
\* only logs.  The process being new, no request is in flight and the
\* limiters' stores are empty.
InitDB(ok) ==
    /\ Pending = {}
    /\ usage_quotas' = IF ok THEN Seed(usage_quotas) ELSE usage_quotas
    /\ hits' = NoHits
    /\ Admit([NewReq EXCEPT !.route = "initDB", !.pc = "done", !.storeFailed = ~ok], 1)
    /\ UNCHANGED <<users, usage_logs, saved_scripts, month, now>>

----------------------------------------------------------------------------
(* Seeding from any state of usage_quotas: each seeded tier without a row, *)
(* or with a row whose script or hooks limit an operator has moved from    *)
(* the seed by up to MaxTuning; the unseeded tier "vip" with or without    *)
(* a row                                                                    *)

MaxTuning == 1

OperatorRows(level) ==
    {[SeedRows[level] EXCEPT !.monthly_script_limit = @ + ds,
                             !.monthly_hooks_limit = @ + dh] :
        ds \in (0 - MaxTuning)..MaxTuning, dh \in (0 - MaxTuning)..MaxTuning}

VipRow == QuotaRow(1, 1, 1, 1, 1, 1, 1, 1, {"script"})

\* the row of a tier, if it has one
RowChoices(level) ==
    {<<>>} \cup {<<row>> : row \in IF level = "vip" THEN {VipRow} ELSE OperatorRows(level)}

TableOf(choice) ==
    [level \in {l \in AccessLevels : choice[l] # <<>>} |-> choice[level][1]]

TableStates ==
    {TableOf([free |-> f, premium |-> p, pro |-> r, vip |-> v]) :
        f \in RowChoices("free"), p \in RowChoices("premium"),
        r \in RowChoices("pro"), v \in RowChoices("vip")}

InitSeed ==
    /\ users = AllFree
    /\ usage_quotas \in TableStates
    /\ month = 1
    /\ usage_logs = <<>>
    /\ now = 0
    /\ hits = NoHits
    /\ saved_scripts = NoScripts
    /\ req = EmptyBag

NextSeed == \E ok \in BOOLEAN : InitDB(ok)

SpecSeed == InitSeed /\ [][NextSeed]_vars

----------------------------------------------------------------------------
(* The whole server, one request at a time: generation, register and       *)
(* login, the profile and saved scripts routes for every user id,          *)
(* restarts of the process, and the months going by                         *)

NextApp ==
    \/ \E userId \in Callers :
          Capacity(0) /\ GenerateScript("server", userId, Destructured("script"), 1)
    \/ \E userId \in Callers :
          Capacity(0) /\ GenerateHooks("server", userId, Destructured("hooks"), 1)
    \/ \E userId \in Callers :
          Capacity(0) /\ GenerateTitles("server", userId, Destructured("titles"), 1)
    \/ \E rec \in Reqs : Handle(rec)
    \/ \E rec \in Reqs, ok \in BOOLEAN : LogUsage(rec, ok)
    \/ \E ip \in Clients, b \in AuthBodies :
          b[1] <= MaxUsers /\ PostRegister(ip, b[1], b[2])
    \/ \E ip \in Clients, b \in AuthBodies :
          b[1] <= MaxUsers /\ PostLogin(ip, b[1], b[2])
    \/ \E rec \in Reqs : AuthLimiter(rec)
    \/ \E rec \in Reqs, ok \in BOOLEAN : RegisterLookup(rec, ok)
    \/ \E rec \in Reqs, ok \in BOOLEAN : RegisterInsert(rec, ok)
    \/ \E rec \in Reqs, ok \in BOOLEAN : LoginLookup(rec, ok)
    \/ \E ip \in Clients, token \in Tokens, userId \in UserIds :
          GetProfile(ip, token, userId)
    \/ \E ip \in Clients, token \in Tokens, userId \in UserIds, body \in SaveBodies :
          PostSave(ip, token, userId, body)
    \/ \E ip \in Clients, token \in Tokens, userId \in UserIds : GetSaved(ip, token, userId)
    \/ \E ip \in Clients, token \in Tokens, userId \in UserIds, id \in 1..MaxScripts :
          DeleteScript(ip, token, userId, id)
    \/ \E rec \in Reqs : Query(rec)
    \/ \E ok \in BOOLEAN : InitDB(ok)
    \/ NextMonth

SpecApp == InitRL /\ [][NextApp]_vars

----------------------------------------------------------------------------
(* What the properties speak of, read off the tables themselves *)

HasPolicy(userId) == userId \in DOMAIN users /\ users[userId] \in DOMAIN usage_quotas

PolicyOf(userId) == usage_quotas[users[userId]]

LimitColumn ==
    [script |-> "monthly_script_limit", hooks |-> "monthly_hooks_limit",
     titles |-> "monthly_titles_limit", outline |-> "monthly_outline_limit",
     description |-> "monthly_description_limit", tags |-> "monthly_tags_limit",
     thumbnail |-> "monthly_thumbnail_limit", ctas |-> "monthly_ctas_limit"]

PolicyLimit(userId, featureType) == PolicyOf(userId)[LimitColumn[featureType]]

\* the success=true records of the user and feature created in the current month
RecordedThisMonth(userId, featureType) ==
    Cardinality({i \in DOMAIN usage_logs :
        /\ usage_logs[i].user_id = userId
        /\ usage_logs[i].feature_type = featureType
        /\ usage_logs[i].success
        /\ usage_logs[i].created_month = month})

Generation(rec) == rec.route \in RoutedFeatures

PassedQuota(rec) == rec.quotaCheck # <<>> /\ rec.quotaCheck[1].allowed

DeniedByQuota(rec) == rec.quotaCheck # <<>> /\ ~rec.quotaCheck[1].allowed

\* request rec is answered with status in this step
AnsweredWith(rec, status) ==
    /\ rec \in Reqs
    /\ rec.pc \notin Final
    /\ \E rec2 \in BagToSet(req') :
          /\ rec2.pc = "done" /\ rec2.status = status
          /\ req' = (req (-) One(rec)) (+) One(rec2)

----------------------------------------------------------------------------
(* C1: whenever the feature is not in features_enabled of the policy row of *)
(* the user's tier, checkQuota never issues the usage count query and its  *)
(* result has allowed = false, whatever the ledger holds.                  *)
C1_DisabledFeatureDenied ==
    \A rec \in Reqs :
        (HasPolicy(rec.userId)
         /\ rec.featureType \notin PolicyOf(rec.userId).features_enabled)
        => /\ rec.pc # "quota_count"
           /\ rec.quotaCheck # <<>> => ~rec.quotaCheck[1].allowed

C1_Witness ==
    \E rec \in Reqs :
        /\ rec.pc = "returned"
        /\ HasPolicy(rec.userId)
        /\ rec.featureType \in Features
        /\ rec.featureType \notin PolicyOf(rec.userId).features_enabled
        /\ RecordedThisMonth(rec.userId, rec.featureType)
              < PolicyLimit(rec.userId, rec.featureType)
        /\ rec.quotaCheck[1] = FeatureNotAvailable

(* C2: for an existing user with a policy row and an enabled feature of the *)
(* enum, a checkQuota whose queries were answered returns allowed = true    *)
(* exactly when the success=true records of the user and feature in the     *)
(* current month are fewer than the tier's limit for the feature.           *)
C2_AllowedIffBelowLimit ==
    \A rec \in Reqs :
        (/\ rec.pc = "returned"
         /\ HasPolicy(rec.userId)
         /\ rec.featureType \in Features
         /\ rec.featureType \in PolicyOf(rec.userId).features_enabled
         /\ rec.quotaCheck[1] # QuotaCheckFailed)
        => (rec.quotaCheck[1].allowed
              <=> RecordedThisMonth(rec.userId, rec.featureType)
                    < PolicyLimit(rec.userId, rec.featureType))

C2_Witness ==
    \E rec \in Reqs :
        /\ rec.pc = "returned"
        /\ HasPolicy(rec.userId)
        /\ rec.featureType \in PolicyOf(rec.userId).features_enabled
        /\ rec.featureType \in Features
        /\ PolicyLimit(rec.userId, rec.featureType) > 0
        /\ RecordedThisMonth(rec.userId, rec.featureType)
              = PolicyLimit(rec.userId, rec.featureType)
        /\ rec.quotaCheck[1] # QuotaCheckFailed
        /\ ~rec.quotaCheck[1].allowed

(* C3: every generation request that passed the quota check and is over    *)
(* has written exactly one usage record.                                    *)
C3_ExactlyOneRecord ==
    \A rec \in Reqs :
        (Generation(rec) /\ rec.pc = "done" /\ PassedQuota(rec)) => rec.inserted = 1

(* C4: a generation request that checkQuota denied is answered 429 with the *)
(* evaluator's reason, has made no remote call and no logUsage call and has *)
(* written no record; a denial by the monthly limit names the limit.        *)
C4_DenialAnswered429 ==
    \A rec \in Reqs :
        (Generation(rec) /\ DeniedByQuota(rec))
        => /\ rec.pc = "done"
           /\ rec.status = 429
           /\ rec.resBody = rec.quotaCheck[1].reason
           /\ ~rec.fetched /\ rec.logCalls = 0 /\ rec.inserted = 0
           /\ "limit" \in DOMAIN rec.quotaCheck[1]
                => /\ Len(rec.resBody) > 2
                   /\ parseInt(SubSeq(rec.resBody, 2, Len(rec.resBody) - 1))
                        = PolicyLimit(rec.userId, rec.route)

\* tier free, script limit 5, 5 successful scripts this month, the next is denied
C4_Witness ==
    /\ usage_quotas = SeedTable
    /\ RecordedThisMonth(1, "script") = 5
    /\ \E rec \in Reqs :
          /\ rec.route = "script" /\ rec.userId = 1
          /\ rec.status = 429
          /\ rec.resBody = <<"Monthly limit of ", "5", " reached">>

(* C5: a request has issued the remote call only if its checkQuota has     *)
(* returned, and returned allowed = true.                                   *)
C5_FetchOnlyAfterAllowed ==
    \A rec \in Reqs :
        /\ rec.fetched => PassedQuota(rec)
        /\ rec.pc \in {"quota_user", "quota_policy", "quota_count"} => ~rec.fetched

C5_Witness ==
    \E rec \in Reqs : rec.pc = "fetch" /\ rec.fetched /\ PassedQuota(rec)

(* C6: every step that answers a generation with 200 raises the count of   *)
(* the user's success=true records of the feature in the current month by   *)
(* exactly 1.                                                               *)
C6_SuccessAlwaysCounted ==
    [][\A rec \in Reqs :
          (Generation(rec) /\ AnsweredWith(rec, 200))
          => RecordedThisMonth(rec.userId, rec.route)'
                = RecordedThisMonth(rec.userId, rec.route) + 1]_vars

(* C6 as amended: the step that answers 200 raises that count by exactly 1  *)
(* when the usage_logs insert succeeded, and leaves it unchanged when the   *)
(* insert failed.                                                           *)
C6_CountedWhenInserted ==
    [][\A rec \in Reqs :
          (Generation(rec) /\ AnsweredWith(rec, 200))
          => RecordedThisMonth(rec.userId, rec.route)'
                = RecordedThisMonth(rec.userId, rec.route)
                    + (IF Len(usage_logs') > Len(usage_logs) THEN 1 ELSE 0)]_vars

C6_Witness ==
    \E rec \in Reqs :
        /\ Generation(rec) /\ rec.status = 200 /\ rec.inserted = 1
        /\ RecordedThisMonth(rec.userId, rec.route) >= 1

(* C7: a generation request that passed the quota check and failed has      *)
(* appended one record with success = false carrying the error message.     *)
C7_FailureRecorded ==
    \A rec \in Reqs :
        (Generation(rec) /\ rec.pc = "done" /\ PassedQuota(rec) /\ rec.status # 200)
        => /\ rec.inserted = 1
           /\ \E i \in DOMAIN usage_logs :
                 /\ usage_logs[i].user_id = rec.userId
                 /\ usage_logs[i].feature_type = rec.route
                 /\ ~usage_logs[i].success
                 /\ usage_logs[i].error_message # null

(* C8: with requests handled one at a time, tiers and policies fixed and    *)
(* every insert succeeding, the success=true records of a user and feature  *)
(* in the current month never exceed the tier's limit for the feature.      *)
C8_WithinLimit ==
    \A userId \in UserIds, featureType \in RoutedFeatures :
        RecordedThisMonth(userId, featureType) <= PolicyLimit(userId, featureType)

C8_Witness ==
    \E rec \in Reqs :
        /\ Generation(rec) /\ rec.status = 429 /\ "limit" \in DOMAIN rec.quotaCheck[1]
        /\ PolicyLimit(rec.userId, rec.route) > 0
        /\ RecordedThisMonth(rec.userId, rec.route) = PolicyLimit(rec.userId, rec.route)
        /\ month > 1

(* C9: a generation request that apiLimiter or generationLimiter answered   *)
(* with its 429 is over, and has made no checkQuota call, no remote call   *)
(* and no logUsage call, and has written no record.                        *)
C9_RejectedGoesNoFurther ==
    \A rec \in Reqs :
        (/\ Generation(rec)
         /\ rec.status = 429
         /\ rec.resBody \in {<<"Rate limit exceeded">>,
                             <<"Generation rate limit exceeded">>})
        => /\ rec.pc = "done"
           /\ rec.quotaCalls = 0 /\ rec.quotaCheck = <<>>
           /\ ~rec.fetched
           /\ rec.logCalls = 0 /\ rec.inserted = 0

\* the eleventh generation request of a minute, turned away
C9_Witness ==
    \E rec \in Reqs :
        /\ Generation(rec)
        /\ rec.status = 429
        /\ rec.resBody = <<"Generation rate limit exceeded">>
        /\ hits.generation[rec.ip].totalHits = 11
        /\ Len(usage_logs) = 1

\* the windows and maxima as the limits are stated: 5 per 15 minutes for
\* login and register together, 30 per minute for the API, 10 per minute
\* for script, hooks and titles together
StatedWindow == [auth |-> 900000, api |-> 60000, generation |-> 60000]
StatedMax == [auth |-> 5, api |-> 30, generation |-> 10]
LimiterRoutes ==
    [auth |-> {"login", "register"}, api |-> RoutedFeatures,
     generation |-> RoutedFeatures]
LimiterPc ==
    [auth |-> "authLimiter", api |-> "apiLimiter", generation |-> "generationLimiter"]

(* C10: per limiter and client, each request reaching the limiter is one   *)
(* hit; the first hit outside an open window opens a window of the stated  *)
(* length and is hit 1, a later hit within the window is the next number   *)
(* and does not move the window's end, the clock alone closes a window, at *)
(* its end and not before; and a request is admitted exactly when its hit  *)
(* number is at most the stated max.  Hence max requests are admitted per  *)
(* window, the next is answered 429, and the first hit after the window    *)
(* has ended is admitted.                                                   *)
C10_FixedWindows ==
    [][\A s \in Scopes, ip \in Ips :
          LET e == hits[s][ip]
              e2 == hits'[s][ip]
              entered == {r \in BagToSet(req') \ Reqs :
                             r.pc = LimiterPc[s] /\ r.ip = ip}
          IN /\ (entered # {}) <=> (now' = now /\ e2 # e)
             /\ entered # {}
                  => /\ e2 = IF e.totalHits > 0 /\ now < e.resetTime
                             THEN [totalHits |-> e.totalHits + 1,
                                   resetTime |-> e.resetTime]
                             ELSE [totalHits |-> 1,
                                   resetTime |-> now + StatedWindow[s]]
                     /\ \A r \in entered :
                           /\ r.seen[s] = e2.totalHits
                           /\ r.route \in LimiterRoutes[s]
             /\ now' # now
                  => \/ e2 = e /\ (e.totalHits > 0 => now' < e.resetTime)
                     \/ e2.totalHits = 0 /\ now' >= e.resetTime
             /\ \A rec \in Reqs :
                   (rec.pc = LimiterPc[s] /\ rec.ip = ip /\ req' # req)
                   => (AnsweredWith(rec, 429) <=> rec.seen[s] > StatedMax[s])]_vars

\* the sixth auth attempt of a quarter hour, a minute into the window
C10_Witness ==
    \E rec \in Reqs :
        /\ rec.route = "register"
        /\ rec.status = 429
        /\ rec.resBody = <<"Too many authentication attempts">>
        /\ hits.auth[rec.ip] = [totalHits |-> 6, resetTime |-> 900000]
        /\ now = 60000

----------------------------------------------------------------------------
(* checkQuota: failures of the store, missing rows, the period counted *)

\* a bare checkQuota call that has returned, and its result
Returned(rec) == rec.route = "checkQuota" /\ rec.pc = "returned"

ResultOf(rec) == rec.quotaCheck[1]

\* the reasons of the denials that state a policy
PolicyReasons ==
    {<<"User not found">>, <<"No quota found">>,
     <<"Feature not available in your plan">>, <<"Unknown feature type">>}
        \cup {<<"Monthly limit of ", d, " reached">> : d \in {DigitChar[i] : i \in 1..10}}

(* C12: a checkQuota call during which a store access failed throws        *)
(* nothing and returns allowed = false with the reason 'Quota check        *)
(* failed', which is none of the policy reasons; it never returns          *)
(* allowed = true.                                                          *)
C12_StoreFailureDenies ==
    \A rec \in Reqs :
        (Returned(rec) /\ rec.storeFailed)
        => /\ rec.thrown = null
           /\ ResultOf(rec).allowed = FALSE
           /\ ResultOf(rec).reason = <<"Quota check failed">>
           /\ ResultOf(rec).reason \notin PolicyReasons

\* the COUNT query fails for a user under the limit with the feature enabled
C12_Witness ==
    \E rec \in Reqs :
        /\ Returned(rec) /\ rec.storeFailed /\ rec.queries = 3
        /\ HasPolicy(rec.userId) /\ KnownFeature(rec.featureType)
        /\ rec.featureType \in PolicyOf(rec.userId).features_enabled
        /\ RecordedThisMonth(rec.userId, rec.featureType)
             < PolicyLimit(rec.userId, rec.featureType)
        /\ ~ResultOf(rec).allowed

(* C13: with the store answering, a user id without a users row is denied  *)
(* with 'User not found' after the users query alone, and a user whose     *)
(* tier has no usage_quotas row is denied with 'No quota found' after the  *)
(* users and the policy query; in both cases the count is not queried.     *)
(* The checks run in the order user, policy, enabled feature, count: the   *)
(* count is queried only for a user with a policy that enables the feature.*)
C13_MissingRowsDenied ==
    \A rec \in Reqs :
        (Returned(rec) /\ ~rec.storeFailed)
        => /\ rec.userId \notin DOMAIN users
                => ResultOf(rec) = UserNotFound /\ rec.queries = 1
           /\ (rec.userId \in DOMAIN users /\ ~HasPolicy(rec.userId))
                => ResultOf(rec) = NoQuotaFound /\ rec.queries = 2
           /\ (HasPolicy(rec.userId)
                /\ rec.featureType \notin PolicyOf(rec.userId).features_enabled)
                => ResultOf(rec) = FeatureNotAvailable /\ rec.queries = 2
           /\ rec.queries = 3
                <=> /\ HasPolicy(rec.userId)
                    /\ rec.featureType \in PolicyOf(rec.userId).features_enabled

\* a user of the tier "vip", which has no row, asks for a script
C13_Witness ==
    \E rec \in Reqs :
        /\ Returned(rec) /\ ~rec.storeFailed
        /\ rec.userId \in DOMAIN users /\ users[rec.userId] = "vip"
        /\ ResultOf(rec) = NoQuotaFound
        /\ rec.queries = 2

\* the rows of the ledger that are success=true records of the user and the
\* feature, by the month they were created in
RecordedIn(userId, featureType, months) ==
    {i \in DOMAIN usage_logs :
        /\ usage_logs[i].user_id = userId
        /\ usage_logs[i].feature_type = featureType
        /\ usage_logs[i].success
        /\ usage_logs[i].created_month \in months}

(* C16: the usage checkQuota compares with the limit is exactly the number *)
(* of success=true records of that user and that feature created in the    *)
(* current month or later; records of earlier months, of other users, of   *)
(* other features and failure records are not in it.  Hence a user whose   *)
(* records of the feature all lie in earlier months is allowed whenever    *)
(* the limit is positive, however many they are.                            *)
C16_CountsCurrentMonthOnly ==
    \A rec \in Reqs :
        (Returned(rec) /\ ~rec.storeFailed /\ rec.queries = 3
            /\ KnownFeature(rec.featureType))
        => /\ ResultOf(rec).currentUsage
                = Cardinality(RecordedIn(rec.userId, rec.featureType, month..MaxMonth))
           /\ (RecordedIn(rec.userId, rec.featureType, month..MaxMonth) = {}
                /\ PolicyLimit(rec.userId, rec.featureType) > 0)
                => ResultOf(rec).allowed

\* the limit is 1, the one record of the user is of last month, and the
\* ledger also holds a record of another user or feature and a failure
C16_Witness ==
    \E rec \in Reqs :
        /\ Returned(rec) /\ ~rec.storeFailed /\ rec.queries = 3
        /\ KnownFeature(rec.featureType)
        /\ PolicyLimit(rec.userId, rec.featureType) = 1
        /\ RecordedIn(rec.userId, rec.featureType, 0..(month - 1)) # {}
        /\ \E i \in DOMAIN usage_logs :
               usage_logs[i].user_id # rec.userId
               \/ usage_logs[i].feature_type # rec.featureType
        /\ \E i \in DOMAIN usage_logs : ~usage_logs[i].success
        /\ ResultOf(rec).allowed
        /\ ResultOf(rec).currentUsage = 0

----------------------------------------------------------------------------
(* logUsage and the ledger *)

(* C14: logUsage never propagates an error: a generation request whose     *)
(* logUsage call ended without a row inserted has thrown nothing and, the  *)
(* generation having succeeded, is answered 200 with the generated         *)
(* content.                                                                 *)
C14_InsertFailureSwallowed ==
    \A rec \in Reqs :
        (Generation(rec) /\ rec.pc = "done" /\ rec.logCalls > 0 /\ rec.inserted = 0)
        => /\ rec.thrown = null
           /\ rec.status = 200
           /\ rec.resBody = <<"content">>

\* the insert of a successful script generation fails: no row, and 200
C14_Witness ==
    \E rec \in Reqs :
        /\ rec.route = "script" /\ rec.pc = "done"
        /\ rec.fetched /\ rec.logCalls = 1 /\ rec.inserted = 0
        /\ rec.status = 200
        /\ usage_logs = <<>>

----------------------------------------------------------------------------
(* Seeding *)

\* initDB has run, and its query went through
Seeded == \E rec \in Reqs : rec.route = "initDB" /\ ~rec.storeFailed

(* C17: seeding is idempotent: whatever usage_quotas held before, once     *)
(* seeding has run, the table is what running it again yields: every       *)
(* seeded tier has a row, and a second run changes no row.                  *)
C17_SeedingIdempotent ==
    Seeded => /\ SeededLevels \subseteq DOMAIN usage_quotas
              /\ Seed(usage_quotas) = usage_quotas

\* seeded from a table without a premium row, with a free row whose hooks
\* limit the operator had raised, and with a row of the unseeded tier
C17_Witness ==
    /\ Seeded
    /\ usage_quotas.premium = SeedRows.premium
    /\ usage_quotas.free.monthly_hooks_limit = SeedRows.free.monthly_hooks_limit + 1
    /\ "vip" \in DOMAIN usage_quotas

(* C18: re-running seeding never lowers a limit of a tier that has a row:  *)
(* in every step, each limit of each existing row is at least what it was. *)
C18_SeedingNeverLowers ==
    [][\A level \in DOMAIN usage_quotas : \A f \in Features :
          usage_quotas'[level][LimitColumn[f]] >= usage_quotas[level][LimitColumn[f]]]_vars

----------------------------------------------------------------------------
(* The general API limiter *)

AuthenticatedRoutes == RoutedFeatures \cup {"profile", "save", "saved", "delete"}

\* the request got past authenticateToken and every limiter of its route:
\* quota evaluation or handler logic has run for it
HandlerRan(rec) ==
    /\ rec.route \in AuthenticatedRoutes
    /\ rec.pc \notin {"apiLimiter", "generationLimiter"}
    /\ rec.status \notin {401, 403}
    /\ ~(rec.status = 429 /\ rec.quotaCalls = 0)

(* C11: every call of an authenticated route (profile, save, list, delete, *)
(* generation) is counted and admitted by the general API limiter before   *)
(* any quota evaluation or handler logic runs for it.                       *)
C11_ApiLimiterOnEveryRoute ==
    \A rec \in Reqs : HandlerRan(rec) => "api" \in rec.passed

----------------------------------------------------------------------------
(* The ledger and the saved scripts under every operation *)

(* C15: the usage ledger is append-only: whatever the server does          *)
(* (generation and its quota check, profile, save, list, delete, register, *)
(* login, re-seeding at a restart), every row of usage_logs stays where it *)
(* is and as it is; a step at most adds rows at the end.                    *)
C15_LedgerAppendOnly ==
    [][/\ Len(usage_logs') >= Len(usage_logs)
       /\ SubSeq(usage_logs', 1, Len(usage_logs)) = usage_logs]_vars

\* a second user has registered, the table was re-seeded, a script was saved
\* and deleted, and the ledger holds its two records
C15_Witness ==
    /\ Len(usage_logs) = MaxLogs
    /\ DOMAIN users = UserIds
    /\ usage_quotas.free.monthly_script_limit = SeedRows.free.monthly_script_limit
    /\ \E rec \in Reqs : rec.route = "delete" /\ rec.status = 200

\* the delete request rec is at its query, for a row that is the caller's or not
Owns(rec) ==
    /\ rec.scriptId \in DOMAIN saved_scripts.rows
    /\ saved_scripts.rows[rec.scriptId].user_id = rec.userId

\* rec's query settles in this step, and rec2 is the request afterwards
Settles(rec, rec2) ==
    /\ rec.pc = "delete_query"
    /\ rec2.pc = "done"
    /\ req' = (req (-) One(rec)) (+) One(rec2)

(* C19: a delete of a script id by a user who does not own a row of that   *)
(* id is answered 404 (500 if the store fails) and changes no row; the     *)
(* owner's delete, when answered 200, removes exactly that row.  No other  *)
(* step removes or changes a row of saved_scripts.                          *)
C19_DeleteByOwnerOnly ==
    [][/\ \A rec \in Reqs : \A rec2 \in BagToSet(req') :
             Settles(rec, rec2)
             => /\ ~Owns(rec)
                     => /\ saved_scripts' = saved_scripts
                        /\ rec2.status = IF rec2.storeFailed THEN 500 ELSE 404
                /\ Owns(rec)
                     => /\ rec2.status = IF rec2.storeFailed THEN 500 ELSE 200
                        /\ DOMAIN saved_scripts'.rows
                             = DOMAIN saved_scripts.rows
                                 \ (IF rec2.status = 200 THEN {rec.scriptId} ELSE {})
       /\ \A id \in DOMAIN saved_scripts.rows :
             IF id \in DOMAIN saved_scripts'.rows
             THEN saved_scripts'.rows[id] = saved_scripts.rows[id]
             ELSE \E rec \in Reqs : \E rec2 \in BagToSet(req') :
                     /\ Settles(rec, rec2) /\ Owns(rec)
                     /\ rec.scriptId = id /\ rec2.status = 200]_vars

\* a registered user asked to delete another user's script: 404, the row stays
C19_Witness ==
    \E rec \in Reqs :
        /\ rec.route = "delete" /\ rec.status = 404
        /\ rec.userId \in DOMAIN users
        /\ rec.scriptId \in DOMAIN saved_scripts.rows
        /\ saved_scripts.rows[rec.scriptId].user_id # rec.userId

----------------------------------------------------------------------------
(* Termination of the orchestrator *)

\* a generation request past the quota check, its handler still running
Generating == \E rec \in Reqs : Generation(rec) /\ PassedQuota(rec) /\ rec.pc \notin Final

\* RECORDED_SUCCESS answered 200, or RECORDED_FAILURE answered 500: the request
\* is over, it wrote its one record, and the caller has the matching response
Recorded ==
    \E rec \in Reqs :
        /\ Generation(rec) /\ PassedQuota(rec) /\ rec.pc = "done"
        /\ rec.inserted = 1
        /\ \/ rec.status = 200 /\ usage_logs[Len(usage_logs)].success
           \/ rec.status = 500 /\ ~usage_logs[Len(usage_logs)].success

(* C20: with every store access and remote call settling, a generation     *)
(* request that has passed the quota check eventually is recorded as a     *)
(* success or as a failure and answered 200 or 500 accordingly; none is    *)
(* left without its record and response after a failure.                    *)
C20_EventuallyRecordedAndAnswered == Generating ~> Recorded

----------------------------------------------------------------------------
(* Concurrent requests of one user *)

(* C21: with requests of one user for one feature in flight together, the  *)
(* success=true records of the month can exceed the tier's limit, but by    *)
(* less than the number of requests that can be in flight together: the     *)
(* excess is at most the requests that had passed the check when the limit  *)
(* was reached, MaxInFlight less the one that reached it.                   *)
C21_OvershootBounded ==
    \A userId \in Callers, featureType \in RoutedFeatures :
        RecordedThisMonth(userId, featureType)
            <= PolicyLimit(userId, featureType) + MaxInFlight - 1

\* limit 1, two script requests counted 0 together, both recorded
C21_Witness ==
    /\ PolicyLimit(1, "script") = 1
    /\ RecordedThisMonth(1, "script") = 2
    /\ \E rec \in Reqs : rec.route = "script" /\ rec.status = 200 /\ rec.inserted = 1

----------------------------------------------------------------------------
(* What a usage record keeps of the request *)

\* the generation parameters of its route that the caller's body supplied
Supplied(rec) == Destructured(rec.route) \cap rec.body

(* C22: the metadata of every usage record a generation route writes has   *)
(* every generation parameter the caller supplied to that route.            *)
C22_MetadataHoldsParameters ==
    [][\A rec \in Reqs :
          (Generation(rec) /\ rec.pc = "log" /\ req' # req
           /\ Len(usage_logs') = Len(usage_logs) + 1)
          => Supplied(rec) \subseteq usage_logs'[Len(usage_logs')].metadata.keys]_vars

----------------------------------------------------------------------------
(* The status of a denial *)

\* the reasons of a plan that does not permit the action
PlanReasons ==
    {<<"Feature not available in your plan">>}
        \cup {<<"Monthly limit of ", d, " reached">> : d \in {DigitChar[i] : i \in 1..10}}

(* C23: a generation request is answered 429 only when the plan does not   *)
(* permit the action (feature not enabled, monthly limit reached); when    *)
(* the store failed during the quota evaluation it is answered 500.         *)
C23_DenialOnlyByPlan ==
    \A rec \in Reqs :
        (Generation(rec) /\ rec.pc = "done" /\ DeniedByQuota(rec))
        => IF rec.storeFailed
           THEN rec.status = 500
           ELSE rec.status = 429 /\ rec.resBody \in PlanReasons

----------------------------------------------------------------------------
(* The shape of a result *)

(* C24: every result checkQuota returns carries the four fields allowed,   *)
(* currentUsage, limit and reason, the two numbers being integers, and its *)
(* reason is null exactly when allowed is true.                             *)
C24_ResultHasFourFields ==
    \A rec \in Reqs :
        Returned(rec)
        => /\ DOMAIN ResultOf(rec) = {"allowed", "currentUsage", "limit", "reason"}
           /\ ResultOf(rec).currentUsage \in Nat
           /\ ResultOf(rec).limit \in Nat
           /\ ResultOf(rec).allowed <=> ResultOf(rec).reason = null

----------------------------------------------------------------------------
(* checkQuota as a read *)

\* what the tables as they are answer to checkQuota(userId, featureType)
Evaluate(userId, featureType) ==
    IF userId \notin DOMAIN users THEN UserNotFound
    ELSE IF ~HasPolicy(userId) THEN NoQuotaFound
    ELSE IF featureType \notin PolicyOf(userId).features_enabled THEN FeatureNotAvailable
    ELSE IF ~KnownFeature(featureType) THEN UnknownFeatureType
    ELSE QuotaResult(Cardinality(RecordedIn(userId, featureType, month..MaxMonth)),
                     PolicyLimit(userId, featureType))

(* C25: checkQuota is a pure read: no step of a call, on any path, changes *)
(* users, usage_quotas, usage_logs or saved_scripts; and a call the store  *)
(* answers returns what the tables determine, so a call made after any     *)
(* number of earlier calls returns what it would have returned before.      *)
C25_PureRead ==
    [][/\ users' = users
       /\ usage_quotas' = usage_quotas
       /\ usage_logs' = usage_logs
       /\ saved_scripts' = saved_scripts
       /\ \A rec \in BagToSet(req') :
             (Returned(rec) /\ ~rec.storeFailed)
             => ResultOf(rec) = Evaluate(rec.userId, rec.featureType)]_vars

\* a call that failed inside at its second query, over a ledger with rows
C25_Witness ==
    \E rec \in Reqs :
        /\ Returned(rec) /\ rec.storeFailed /\ rec.queries = 2
        /\ Len(usage_logs) > 1

----------------------------------------------------------------------------
(* The order of the middlewares of a generation route *)

\* the request that arrives in this step, if one does: it is new in the bag,
\* and every request in flight is still where it was
Arrived ==
    {rec \in BagToSet(req') :
        /\ rec \notin Reqs \/ req'[rec] > req[rec]
        /\ \A old \in Pending : old \in BagToSet(req') /\ req'[old] >= req[old]}

\* the count a hit finds, and the window as the hit leaves it
Hit(scope, ip) ==
    IF hits[scope][ip].totalHits > 0 /\ now < hits[scope][ip].resetTime
    THEN [totalHits |-> hits[scope][ip].totalHits + 1,
          resetTime |-> hits[scope][ip].resetTime]
    ELSE [totalHits |-> 1, resetTime |-> now + StatedWindow[scope]]

(* C29: on the generation routes authentication runs before both          *)
(* limiters.  A request answered 401 or 403 changes no counter.  A request *)
(* that passes authentication is one hit of the API window and of no       *)
(* other; when the API limiter decides, the request is one hit of the      *)
(* generation window exactly if its API hit was within the 30, and a       *)
(* request the API limiter rejects changes no counter.  No later step of   *)
(* the request (the generation limiter's verdict, the quota check, the     *)
(* remote call, the record) changes a counter, so the slots stay consumed  *)
(* when the request is denied by quota or fails upstream.                   *)
C29_AuthenticationBeforeLimiters ==
    [][/\ \A rec \in Arrived :
             Generation(rec)
             => IF rec.status \in {401, 403} THEN hits' = hits
                ELSE /\ rec.pc = "apiLimiter"
                     /\ hits' = [hits EXCEPT !.api[rec.ip] = Hit("api", rec.ip)]
       /\ \A rec \in Reqs :
             (Generation(rec) /\ rec.pc \notin Final /\ req' # req /\ now' = now)
             => IF rec.pc = "apiLimiter" /\ rec.seen.api <= StatedMax.api
                THEN hits' = [hits EXCEPT
                                 !.generation[rec.ip] = Hit("generation", rec.ip)]
                ELSE hits' = hits]_vars

\* a request denied by quota, its hits counted in both windows beside those
\* of the request before it
C29_Witness ==
    \E rec \in Reqs :
        /\ Generation(rec) /\ DeniedByQuota(rec) /\ rec.status = 429
        /\ hits.api[rec.ip].totalHits = 2
        /\ hits.generation[rec.ip].totalHits = 2

----------------------------------------------------------------------------
(* What re-seeding changes *)

\* monthly_script_limit of the VALUES list
CodeDefinedScriptLimit == [free |-> 5, premium |-> 50, pro |-> 200]

(* C30: seeding run over an existing tier row changes only the row's       *)
(* monthly_script_limit, which becomes the code-defined 5, 50 or 200 for   *)
(* free, premium, pro; the other seven limits and features_enabled of the  *)
(* row stay, and rows of tiers outside the seed list are untouched.         *)
C30_ReseedingSetsScriptLimitOnly ==
    [][(\E rec \in BagToSet(req') : rec.route = "initDB" /\ ~rec.storeFailed)
       => \A level \in DOMAIN usage_quotas :
             usage_quotas'[level] =
                 IF level \in {"free", "premium", "pro"}
                 THEN [usage_quotas[level] EXCEPT
                          !.monthly_script_limit = CodeDefinedScriptLimit[level]]
                 ELSE usage_quotas[level]]_vars

\* seeded over a pro row with both limits lowered by the operator: the hooks
\* limit is still the operator's, and the row of tier vip is there
C30_Witness ==
    /\ Seeded
    /\ usage_quotas.pro.monthly_script_limit = 200
    /\ usage_quotas.pro.monthly_hooks_limit = SeedRows.pro.monthly_hooks_limit - 1
    /\ "vip" \in DOMAIN usage_quotas /\ usage_quotas.vip = VipRow

----------------------------------------------------------------------------
(* Content or failure, never both *)

\* request rec takes a step in which it becomes rec2
Becomes(rec, rec2) == rec2 # rec /\ req' = (req (-) One(rec)) (+) One(rec2)

\* the texts JSON.parse throws on once the fences are stripped
Unparsable == {text \in Texts : ~JsonParses(StripFences(text))}

\* rec carries no success record to write and no content
NoSuccess(rec) ==
    /\ rec.pending = <<>> \/ ~rec.pending[1].success
    /\ rec.status # 200
    /\ rec.resBody # <<"content">>

(* C27: a generation request never yields both content and a failure: for  *)
(* hooks and titles a remote text that does not parse as JSON once the      *)
(* fences are stripped leaves the request without a success record to      *)
(* write and without content; a request whose success record is written is *)
(* answered 200 with the content; and an answered request carries content  *)
(* exactly with status 200 and no error thrown.                             *)
C27_ContentOrFailure ==
    [][/\ \A rec \in Reqs, rec2 \in BagToSet(req') :
              (Generation(rec) /\ Becomes(rec, rec2))
              => /\ (/\ rec.pc = "json" /\ rec.route \in {"hooks", "titles"}
                     /\ \E text \in Unparsable, fw \in FrameworkAnswers :
                            rec2 = AfterJson(rec, text, fw))
                    => NoSuccess(rec2)
                 /\ (/\ rec.pc = "log" /\ rec.pending[1].success
                     /\ usage_logs' # usage_logs)
                    => rec2.status = 200 /\ rec2.resBody = <<"content">>
       /\ \A rec \in BagToSet(req') :
              (Generation(rec) /\ rec.pc = "done")
              => /\ rec.resBody = <<"content">> <=> rec.status = 200
                 /\ rec.status = 200 => rec.thrown = null /\ rec.pending = <<>>]_vars

\* a hooks request whose text came back and was not recorded or answered with
\* content, beside a request answered with content and recorded
C27_Witness ==
    /\ \E rec \in Reqs :
          /\ rec.route = "hooks" /\ rec.pc = "done" /\ rec.fetched /\ rec.responseOk
          /\ rec.logCalls = 0 /\ rec.status # 200 /\ rec.resBody # <<"content">>
    /\ \E rec \in Reqs :
          /\ rec.route = "titles" /\ rec.pc = "done" /\ rec.status = 200
          /\ rec.inserted = 1
    /\ \A i \in 1..Len(usage_logs) : usage_logs[i].success

----------------------------------------------------------------------------
(* A user whose stored tier changes while a token issued before is in use *)

Tiers == {"free", "pro"}

\* UPDATE users SET access_level = ... by the operator: no route does it
SetTier(userId, level) ==
    /\ userId \in DOMAIN users /\ users[userId] # level
    /\ users' = [users EXCEPT ![userId] = level]
    /\ UNCHANGED <<usage_quotas, usage_logs, saved_scripts, month, now, hits, req>>

\* a generation request with a token a login returned: req.user is its payload
WithToken(route, userId, body) ==
    /\ Capacity(0)
    /\ \E holder \in Reqs :
          /\ holder.pc \in Final /\ holder.userId = userId
          /\ holder.tokenAccessLevel # "none"
          /\ Admit(EnterHandler([Arrival(route, "server", userId, body) EXCEPT
                                    !.tokenAccessLevel = holder.tokenAccessLevel]), 1)
    /\ UNCHANGED <<users, usage_quotas, usage_logs, saved_scripts, month, now, hits>>

NextTier ==
    \/ \E ip \in Clients, userId \in Callers : PostLogin(ip, userId, "good")
    \/ \E rec \in Reqs : AuthLimiter(rec)
    \/ \E rec \in Reqs, ok \in BOOLEAN : LoginLookup(rec, ok)
    \/ \E userId \in Callers, route \in {"script", "hooks"} :
          WithToken(route, userId, Destructured(route))
    \/ \E rec \in Reqs : Handle(rec)
    \/ \E rec \in Reqs, ok \in BOOLEAN : LogUsage(rec, ok)
    \/ \E userId \in Callers, level \in Tiers : SetTier(userId, level)

SpecTier == InitRL /\ [][NextTier]_vars

\* what the policy of tier level answers for the user's records of the month
JudgedBy(level, userId, featureType) ==
    IF level \notin DOMAIN usage_quotas THEN NoQuotaFound
    ELSE IF featureType \notin usage_quotas[level].features_enabled
         THEN FeatureNotAvailable
    ELSE IF ~KnownFeature(featureType) THEN UnknownFeatureType
    ELSE QuotaResult(Cardinality(RecordedIn(userId, featureType, month..MaxMonth)),
                     usage_quotas[level][LimitColumn[featureType]])

(* C28: quota is evaluated against the tier stored for the user, not the   *)
(* accessLevel of the caller's token: the tier a generation request goes  *)
(* on with after its users query is the one stored at that step, whatever *)
(* the token says, and the quota result the store lets it reach is what   *)
(* the policy of that tier answers.                                        *)
C28_StoredTierDecides ==
    [][\A rec \in Reqs, rec2 \in BagToSet(req') :
          (Generation(rec) /\ Becomes(rec, rec2))
          => /\ (rec.pc = "quota_user" /\ rec2.pc = "quota_policy")
                => rec2.accessLevel = users[rec.userId]
             /\ (/\ rec.pc \in {"quota_policy", "quota_count"}
                 /\ rec2.quotaCheck # <<>> /\ ~rec2.storeFailed)
                => rec2.quotaCheck[1] = JudgedBy(rec.accessLevel, rec.userId, rec.route)]_vars

\* hooks, which the free tier's limit of 0 denies, permitted by the limit
\* of pro to a user stored as pro whose token says free
C28_Witness ==
    /\ \E rec \in Reqs :
          /\ rec.route = "hooks" /\ rec.pc = "done" /\ rec.tokenAccessLevel = "free"
          /\ PassedQuota(rec) /\ rec.quotaCheck[1].limit = SeedRows.pro.monthly_hooks_limit
          /\ users[rec.userId] = "pro"

----------------------------------------------------------------------------
(* Two clients behind the three limiters *)

NextKeys ==
    \/ \E ip \in Ips, userId \in Callers : PostLogin(ip, userId, "good")
    \/ \E ip \in Ips, userId \in Callers :
          PostGenerateTitles("server", ip, "valid", userId, Destructured("titles"))
    \/ \E rec \in Reqs : AuthLimiter(rec)
    \/ \E rec \in Reqs : ApiLimiter(rec)
    \/ \E rec \in Reqs : GenerationLimiter(rec)
    \/ \E rec \in Reqs, ok \in BOOLEAN : LoginLookup(rec, ok)
    \/ \E rec \in Reqs, ok \in BOOLEAN : QuotaUser(rec, ok)
    \/ \E rec \in Reqs, ok \in BOOLEAN : QuotaPolicy(rec, ok)
    \/ \E rec \in Reqs, ok \in BOOLEAN : QuotaCount(rec, ok)

SpecKeys == InitRL /\ [][NextKeys]_vars

\* the counters this step changes
Changed == {k \in Scopes \X Ips : hits'[k[1]][k[2]] # hits[k[1]][k[2]]}

\* the limiter that counts a request when it comes to position pc
ScopeAt(pc) ==
    CASE pc = "authLimiter" -> "auth"
      [] pc = "apiLimiter" -> "api"
      [] pc = "generationLimiter" -> "generation"

LimiterPcs == {"authLimiter", "apiLimiter", "generationLimiter"}

(* C26: the counters of the limiters are independent across clients and    *)
(* scopes: a request that comes to a limiter changes the counter of that   *)
(* limiter for its own client and no other counter, its hit number is the  *)
(* next of that counter alone, the limiter turns it away exactly when that *)
(* number is beyond the limiter's max, and no other step changes a counter.*)
C26_CountersIndependent ==
    [][/\ \A rec \in BagToSet(req') :
              (rec.pc \in LimiterPcs /\ (rec \in Arrived \/ \E old \in Reqs :
                                                            /\ old.pc = "apiLimiter"
                                                            /\ rec.pc = "generationLimiter"
                                                            /\ Becomes(old, rec)))
              => /\ Changed \subseteq {<<ScopeAt(rec.pc), rec.ip>>}
                 /\ hits'[ScopeAt(rec.pc)][rec.ip] = Hit(ScopeAt(rec.pc), rec.ip)
                 /\ rec.seen[ScopeAt(rec.pc)] = Hit(ScopeAt(rec.pc), rec.ip).totalHits
       /\ (\A rec \in BagToSet(req') : rec.pc \notin LimiterPcs \/ rec \in Reqs)
          => Changed = {}
       /\ \A rec \in Reqs, rec2 \in BagToSet(req') :
              (rec.pc \in LimiterPcs /\ Becomes(rec, rec2))
              => ((rec2.status = 429 /\ rec2.resBody = Limiter(ScopeAt(rec.pc)).message)
                  <=> rec.seen[ScopeAt(rec.pc)] > StatedMax[ScopeAt(rec.pc)])]_vars

\* the first client is beyond the max of its API window and the second beyond
\* the max of its authentication window, and a request of the second client
\* has passed the API and the generation limiter
C26_Witness ==
    /\ hits.api["ipA"].totalHits > StatedMax.api
    /\ hits.auth["ipB"].totalHits > StatedMax.auth
    /\ \E rec \in Reqs : rec.ip = "ipB" /\ rec.passed = {"api", "generation"}

====
